---- MODULE Spec2Model ----
(***************************************************************************)
(* ARION: the fusion engine (src/arion/core/engine.py) and the parts of    *)
(* the agents its pipeline depends on.                                     *)
(*                                                                         *)
(* Numbers.  Scores are fixed-point with two decimals: the value v is the  *)
(* integer 100 * v.  A risk score of 50.0 is 5000, a sentiment score of  *)
(* -0.5 is -50, a correlation of 0.75 is 75, a confidence of 0.8 is 80.    *)
(* The inputs are chosen so that every product the code forms is exact in  *)
(* this representation (risk scores are multiples of 0.05).                *)
(*                                                                         *)
(* Data.  A price table is represented by what the agents derive from it   *)
(* (number of symbols, portfolio risk score and risk alerts, predicted     *)
(* directions, aligned rows and average correlation); a news map by the    *)
(* per-symbol headline averages.                                           *)
(*                                                                         *)
(* Objects.  A dict key that is not present is the value Absent.  The      *)
(* alert dicts of a result are shared by every holder of that result       *)
(* (agent_results, the agent's last_analysis, the summary): a write to an  *)
(* alert is applied to every holder of the same object.                    *)
(***************************************************************************)
EXTENDS Integers, Sequences, FiniteSets, TLC

VARIABLES
    market_data,      \* ARIONEngine.market_data
    news_data,        \* ARIONEngine.news_data
    agent_results,    \* ARIONEngine.agent_results ({} or the five results)
    unified_score,    \* ARIONEngine.unified_score
    last_analysis,    \* <agent>.last_analysis of the five agents
    ret,              \* what the last call gave its caller
    runs,             \* number of run() calls made on this engine
    env               \* what happened inside the last run(): the supplier's
                      \* outcome and the agent whose analyze() raised

vars == <<market_data, news_data, agent_results, unified_score, last_analysis, ret, runs, env>>

(***************************************************************************)
(* Bounds                                                                  *)
(***************************************************************************)
MaxRuns == 2          \* run() calls on one engine
MaxAlerts == 3        \* alerts in agent_results when get_all_alerts is applied to arbitrary results
MaxRetryLimit == 3    \* largest max_retries a DataFetcher is built with

Absent == "<absent>"
NaN == "nan"
\* a float is either a number or nan; nan is told apart by its printed form
IsNaN(x) == ToString(x) = ToString(NaN)
EmptyDict == <<>>

Abs(x) == IF x < 0 THEN -x ELSE x
Min(a, b) == IF a < b THEN a ELSE b
Max(a, b) == IF a > b THEN a ELSE b

RECURSIVE SumSeq(_)
SumSeq(s) == IF s = <<>> THEN 0 ELSE Head(s) + SumSeq(Tail(s))

RECURSIVE Flatten(_)
Flatten(ss) == IF ss = <<>> THEN <<>> ELSE Head(ss) \o Flatten(Tail(ss))

BaseAgents == <<"risk", "forecast", "sentiment", "correlation">>
AgentNames == <<"risk", "forecast", "sentiment", "correlation", "advisory">>
AgentSet == {AgentNames[i] : i \in 1..Len(AgentNames)}
BaseAgentSet == {BaseAgents[i] : i \in 1..Len(BaseAgents)}

Alert(type, severity, symbol) ==
    [type |-> type, severity |-> severity, symbol |-> symbol, source |-> Absent]

(***************************************************************************)
(* RiskAgent                                                               *)
(***************************************************************************)
RiskAgent_get_risk_level(score) ==
    IF score < 2000 THEN "LOW"
    ELSE IF score < 5000 THEN "MEDIUM"
    ELSE IF score < 8000 THEN "HIGH"
    ELSE "CRITICAL"

RiskAgent_empty_result ==
    [overall_risk_score |-> 0, risk_level |-> "UNKNOWN", alerts |-> <<>>, confidence |-> 0]

\* analyze(data): the result and whether it was bound to self.last_analysis.
RiskAgent_analyze(data) ==
    IF data.nsym = 0
    THEN [result |-> RiskAgent_empty_result, stored |-> FALSE]
    ELSE [result |-> [overall_risk_score |-> data.risk.score,
                      risk_level |-> RiskAgent_get_risk_level(data.risk.score),
                      alerts |-> data.risk.alerts,
                      confidence |-> data.risk.confidence],
          stored |-> TRUE]

(***************************************************************************)
(* ForecastAgent                                                           *)
(***************************************************************************)
ForecastAgent_empty_result ==
    [market_sentiment |-> "UNKNOWN", average_prediction |-> 0, confidence |-> 0]

CountOf(seq, v) == Cardinality({i \in 1..Len(seq) : seq[i] = v})

\* mutant: a tie between UP and DOWN counts as bullish
ForecastAgent_analyze_tie_bullish(data) ==
    IF data.nsym = 0
    THEN [result |-> ForecastAgent_empty_result, stored |-> FALSE]
    ELSE LET forecasts == data.forecast.directions
             bullish_count == CountOf(forecasts, "UP")
             bearish_count == CountOf(forecasts, "DOWN")
             market_sentiment ==
                 IF forecasts # <<>>
                 THEN IF bullish_count >= bearish_count THEN "BULLISH"
                      ELSE IF bearish_count > bullish_count THEN "BEARISH"
                      ELSE "NEUTRAL"
                 ELSE "UNKNOWN"
         IN [result |-> [market_sentiment |-> market_sentiment,
                         average_prediction |-> 0,
                         confidence |-> IF forecasts # <<>> THEN data.forecast.confidence ELSE 0],
             stored |-> TRUE]

ForecastAgent_analyze(data) ==
    IF data.nsym = 0
    THEN [result |-> ForecastAgent_empty_result, stored |-> FALSE]
    ELSE LET forecasts == data.forecast.directions
             bullish_count == CountOf(forecasts, "UP")
             bearish_count == CountOf(forecasts, "DOWN")
             market_sentiment ==
                 IF forecasts # <<>>
                 THEN IF bullish_count > bearish_count THEN "BULLISH"
                      ELSE IF bearish_count > bullish_count THEN "BEARISH"
                      ELSE "NEUTRAL"
                 ELSE "UNKNOWN"
         IN [result |-> [market_sentiment |-> market_sentiment,
                         average_prediction |-> 0,
                         confidence |-> IF forecasts # <<>> THEN data.forecast.confidence ELSE 0],
             stored |-> TRUE]

(***************************************************************************)
(* SentimentAgent                                                          *)
(***************************************************************************)
\* mutant: the labels use the thresholds of the alerts
SentimentAgent_get_sentiment_label_at_alert_level(score) ==
    IF score > 50 THEN "POSITIVE"
    ELSE IF score < -50 THEN "NEGATIVE"
    ELSE "NEUTRAL"

SentimentAgent_get_sentiment_label(score) ==
    IF score > 20 THEN "POSITIVE"
    ELSE IF score < -20 THEN "NEGATIVE"
    ELSE "NEUTRAL"

SentimentAgent_empty_result ==
    [overall_score |-> 0, overall_label |-> "NEUTRAL", alerts |-> <<>>, confidence |-> 0]

\* mutant: the boundary scores raise an alert
SentimentAlertsOf_inclusive(sym) ==
    IF sym.score <= -50
    THEN <<Alert("NEGATIVE_SENTIMENT", IF sym.score <= -70 THEN "HIGH" ELSE "MEDIUM", sym.symbol)>>
    ELSE IF sym.score >= 50
    THEN <<Alert("POSITIVE_SENTIMENT", "LOW", sym.symbol)>>
    ELSE <<>>

SentimentAlertsOf(sym) ==
    IF sym.score < -50
    THEN <<Alert("NEGATIVE_SENTIMENT", IF sym.score < -70 THEN "HIGH" ELSE "MEDIUM", sym.symbol)>>
    ELSE IF sym.score > 50
    THEN <<Alert("POSITIVE_SENTIMENT", "LOW", sym.symbol)>>
    ELSE <<>>

SentimentAgent_calculate_confidence(article_counts) ==
    IF article_counts = <<>> THEN 0
    ELSE Min(100, (SumSeq(article_counts) * 100) \div (Len(article_counts) * 10))

\* news.keys: number of symbols in the map; news.scored: the symbols that
\* have articles, each with its headline average and number of headlines.
SentimentAgent_analyze(news) ==
    IF news.keys = 0
    THEN [result |-> SentimentAgent_empty_result, stored |-> FALSE]
    ELSE LET scored == news.scored
             sentiment_scores == [i \in 1..Len(scored) |-> scored[i].score]
             article_counts == [i \in 1..Len(scored) |-> scored[i].articles]
             overall_score == IF scored # <<>>
                              THEN SumSeq(sentiment_scores) \div Len(scored)
                              ELSE 0
             overall_label == IF scored # <<>>
                              THEN SentimentAgent_get_sentiment_label(overall_score)
                              ELSE "NEUTRAL"
             alerts == Flatten([i \in 1..Len(scored) |-> SentimentAlertsOf(scored[i])])
         IN [result |-> [overall_score |-> overall_score,
                         overall_label |-> overall_label,
                         alerts |-> alerts,
                         confidence |-> SentimentAgent_calculate_confidence(article_counts)],
             stored |-> TRUE]

(***************************************************************************)
(* CorrelationAgent                                                        *)
(***************************************************************************)
\* mutant: the alert threshold set to the threshold of the HIGH level
high_correlation_threshold_as_high_level == 80

high_correlation_threshold == 70

CorrelationAgent_empty_result ==
    [average_correlation |-> 0, diversification_score |-> 0, risk_level |-> "UNKNOWN",
     alerts |-> <<>>, confidence |-> 0]

CorrelationAgent_calculate_confidence(n_obs) ==
    IF n_obs = 0 THEN 0
    ELSE IF n_obs >= 60 THEN 100
    ELSE IF n_obs >= 30 THEN 80
    ELSE IF n_obs >= 20 THEN 60
    ELSE 40

\* mutant: a table of exactly 20 aligned rows is not enough
CorrelationAgent_analyze_more_than_20(data) ==
    IF data.nsym < 2 \/ data.corr.rows <= 20
    THEN [result |-> CorrelationAgent_empty_result, stored |-> FALSE]
    ELSE LET avg_correlation == data.corr.avg
             \* abs(avg_correlation) > t is False when avg_correlation is nan
             exceeds(t) == ~IsNaN(avg_correlation) /\ Abs(avg_correlation) > t
             \* max(0, nan) is 0
             diversification_score == IF IsNaN(avg_correlation) THEN 0
                                      ELSE Max(0, 100 * (100 - Abs(avg_correlation)))
             increases == IF data.corr.rows > 60 THEN data.corr.increases ELSE 0
             alerts ==
                 (IF exceeds(high_correlation_threshold)
                  THEN <<Alert("HIGH_PORTFOLIO_CORRELATION", "HIGH", Absent)>>
                  ELSE <<>>)
                 \o [i \in 1..increases |-> Alert("CORRELATION_INCREASE", "MEDIUM", Absent)]
             risk_level == IF exceeds(80) THEN "HIGH"
                           ELSE IF exceeds(60) THEN "MEDIUM"
                           ELSE "LOW"
         IN [result |-> [average_correlation |-> avg_correlation,
                         diversification_score |-> diversification_score,
                         risk_level |-> risk_level,
                         alerts |-> alerts,
                         confidence |-> CorrelationAgent_calculate_confidence(data.corr.rows)],
             stored |-> TRUE]

\* data.corr.rows: rows of the date-aligned returns table; data.corr.avg: the
\* mean of the upper triangle of its correlation matrix; data.corr.increases:
\* pairs whose recent correlation exceeds the historical one by more than 0.2.
CorrelationAgent_analyze(data) ==
    IF data.nsym < 2 \/ data.corr.rows < 20
    THEN [result |-> CorrelationAgent_empty_result, stored |-> FALSE]
    ELSE LET avg_correlation == data.corr.avg
             \* abs(avg_correlation) > t is False when avg_correlation is nan
             exceeds(t) == ~IsNaN(avg_correlation) /\ Abs(avg_correlation) > t
             \* max(0, nan) is 0
             diversification_score == IF IsNaN(avg_correlation) THEN 0
                                      ELSE Max(0, 100 * (100 - Abs(avg_correlation)))
             increases == IF data.corr.rows > 60 THEN data.corr.increases ELSE 0
             alerts ==
                 (IF exceeds(high_correlation_threshold)
                  THEN <<Alert("HIGH_PORTFOLIO_CORRELATION", "HIGH", Absent)>>
                  ELSE <<>>)
                 \o [i \in 1..increases |-> Alert("CORRELATION_INCREASE", "MEDIUM", Absent)]
             risk_level == IF exceeds(80) THEN "HIGH"
                           ELSE IF exceeds(60) THEN "MEDIUM"
                           ELSE "LOW"
         IN [result |-> [average_correlation |-> avg_correlation,
                         diversification_score |-> diversification_score,
                         risk_level |-> risk_level,
                         alerts |-> alerts,
                         confidence |-> CorrelationAgent_calculate_confidence(data.corr.rows)],
             stored |-> TRUE]

(***************************************************************************)
(* AdvisoryAgent                                                           *)
(***************************************************************************)
\* mutant: the HIGH row asks for a bearish forecast and a negative sentiment
AdvisoryAgent_generate_overall_recommendation_high_needs_both(risk_level, market_sentiment, sentiment_label, corr_risk) ==
    IF risk_level = "CRITICAL" THEN "REDUCE_RISK_IMMEDIATELY"
    ELSE IF risk_level = "HIGH" /\ (market_sentiment = "BEARISH" /\ sentiment_label = "NEGATIVE")
    THEN "DEFENSIVE_STANCE"
    ELSE IF risk_level = "HIGH" THEN "MONITOR_CLOSELY"
    ELSE IF risk_level = "MEDIUM" /\ market_sentiment = "BEARISH" /\ sentiment_label = "NEGATIVE"
    THEN "CAUTIOUS_APPROACH"
    ELSE IF risk_level = "LOW" /\ market_sentiment = "BULLISH" /\ sentiment_label = "POSITIVE"
    THEN "FAVORABLE_CONDITIONS"
    ELSE "MAINTAIN_CURRENT_STRATEGY"

AdvisoryAgent_generate_overall_recommendation(risk_level, market_sentiment, sentiment_label, corr_risk) ==
    IF risk_level = "CRITICAL" THEN "REDUCE_RISK_IMMEDIATELY"
    ELSE IF risk_level = "HIGH" /\ (market_sentiment = "BEARISH" \/ sentiment_label = "NEGATIVE")
    THEN "DEFENSIVE_STANCE"
    ELSE IF risk_level = "HIGH" THEN "MONITOR_CLOSELY"
    ELSE IF risk_level = "MEDIUM" /\ market_sentiment = "BEARISH" /\ sentiment_label = "NEGATIVE"
    THEN "CAUTIOUS_APPROACH"
    ELSE IF risk_level = "LOW" /\ market_sentiment = "BULLISH" /\ sentiment_label = "POSITIVE"
    THEN "FAVORABLE_CONDITIONS"
    ELSE "MAINTAIN_CURRENT_STRATEGY"

\* mutant: CRITICAL ranked after LOW
priority_order_critical_last(p) ==
    CASE p = "CRITICAL" -> 4 [] p = "HIGH" -> 1 [] p = "MEDIUM" -> 2 [] p = "LOW" -> 3

priority_order(p) ==
    CASE p = "CRITICAL" -> 0 [] p = "HIGH" -> 1 [] p = "MEDIUM" -> 2 [] p = "LOW" -> 3

\* mutant: an element is inserted before the elements of equal key
RECURSIVE InsertStable_before_equal(_, _, _)
InsertStable_before_equal(i, perm, keys) ==
    IF perm = <<>> THEN <<i>>
    ELSE IF keys[i] <= keys[Head(perm)] THEN <<i>> \o perm
    ELSE <<Head(perm)>> \o InsertStable_before_equal(i, Tail(perm), keys)

\* list.sort / sorted with a key: a stable sort.  keys[i] is the key of the
\* i-th element; the result is the order in which the elements come out.
\* Each index is inserted after the last index whose key is not larger.
RECURSIVE InsertStable(_, _, _)
InsertStable(i, perm, keys) ==
    IF perm = <<>> THEN <<i>>
    ELSE IF keys[i] < keys[Head(perm)] THEN <<i>> \o perm
    ELSE <<Head(perm)>> \o InsertStable(i, Tail(perm), keys)

RECURSIVE SortedOrder(_, _)
SortedOrder(n, keys) ==
    IF n = 0 THEN <<>>
    ELSE InsertStable(n, SortedOrder(n - 1, keys), keys)

\* mutant: the list is left in the order it was built
SortStable_unsorted(s, keys) == s

SortStable(s, keys) ==
    LET perm == SortedOrder(Len(s), keys) IN [i \in 1..Len(s) |-> s[perm[i]]]

\* dict.get(key, default)
Get(d, key, default) == IF key \in DOMAIN d THEN d[key] ELSE default

\* np.mean of the confidences that are > 0; the mean of no value is nan.
MeanPositive(confidences) ==
    LET pos == SelectSeq(confidences, LAMBDA c : c > 0)
    IN IF pos = <<>> THEN NaN ELSE SumSeq(pos) \div Len(pos)

\* mutant: an UNKNOWN forecast is not compared with the sentiment label
AdvisoryAgent_analyze_unknown_forecast_silent(risk_analysis, forecast_analysis, sentiment_analysis, correlation_analysis) ==
    LET risk_level == Get(risk_analysis, "risk_level", "UNKNOWN")
        market_sentiment == Get(forecast_analysis, "market_sentiment", "UNKNOWN")
        sentiment_label == Get(sentiment_analysis, "overall_label", "NEUTRAL")
        corr_risk == Get(correlation_analysis, "risk_level", "UNKNOWN")
        diversification == Get(correlation_analysis, "diversification_score", 0)
        risk_alerts == Get(risk_analysis, "alerts", <<>>)
        sentiment_alerts == Get(sentiment_analysis, "alerts", <<>>)
        high_vol_alerts == SelectSeq(risk_alerts,
                               LAMBDA a : a.type \in {"HIGH_VOLATILITY", "VOLATILITY_SPIKE"})
        neg_sent_alerts == SelectSeq(sentiment_alerts, LAMBDA a : a.type = "NEGATIVE_SENTIMENT")
        act(action, priority) == [action |-> action, priority |-> priority]
        rec(category, urgency) == [category |-> category, urgency |-> urgency]
        a1 == IF risk_level \in {"HIGH", "CRITICAL"} THEN <<act("REDUCE_EXPOSURE", "HIGH")>> ELSE <<>>
        r1 == IF risk_level \in {"HIGH", "CRITICAL"} THEN <<rec("RISK_MANAGEMENT", "HIGH")>> ELSE <<>>
        f1 == IF risk_level \in {"HIGH", "CRITICAL"} THEN <<"High portfolio volatility detected">> ELSE <<>>
        bearneg == market_sentiment = "BEARISH" /\ sentiment_label = "NEGATIVE"
        bullpos == market_sentiment = "BULLISH" /\ sentiment_label = "POSITIVE"
        diverge == ~bearneg /\ ~bullpos /\ market_sentiment # sentiment_label
                   /\ market_sentiment # "UNKNOWN"
        a2 == IF bearneg THEN <<act("DEFENSIVE_POSITIONING", "HIGH")>> ELSE <<>>
        r2 == IF bearneg THEN <<rec("MARKET_OUTLOOK", "HIGH")>>
              ELSE IF bullpos THEN <<rec("MARKET_OUTLOOK", "LOW")>>
              ELSE IF diverge THEN <<rec("MARKET_OUTLOOK", "MEDIUM")>>
              ELSE <<>>
        f2 == IF bearneg THEN <<"Bearish forecast aligned with negative sentiment">>
              ELSE IF diverge THEN <<"Divergence between technical and sentiment signals">>
              ELSE <<>>
        a3 == IF corr_risk = "HIGH" THEN <<act("IMPROVE_DIVERSIFICATION", "MEDIUM")>> ELSE <<>>
        r3 == IF corr_risk = "HIGH" THEN <<rec("DIVERSIFICATION", "MEDIUM")>>
              ELSE IF diversification > 7000 THEN <<rec("DIVERSIFICATION", "LOW")>>
              ELSE <<>>
        f3 == IF corr_risk = "HIGH" THEN <<"High correlation reduces diversification benefit">> ELSE <<>>
        a4 == IF high_vol_alerts # <<>> /\ neg_sent_alerts # <<>>
              THEN <<act("RISK_REVIEW", "CRITICAL")>> ELSE <<>>
        priority_actions == a1 \o a2 \o a3 \o a4
        confidences == <<Get(risk_analysis, "confidence", 0),
                         Get(forecast_analysis, "confidence", 0),
                         Get(sentiment_analysis, "confidence", 0),
                         Get(correlation_analysis, "confidence", 0)>>
    IN [result |-> [overall_recommendation |->
                        AdvisoryAgent_generate_overall_recommendation(
                            risk_level, market_sentiment, sentiment_label, corr_risk),
                    priority_actions |-> SortStable(priority_actions,
                        [i \in 1..Len(priority_actions) |-> priority_order(priority_actions[i].priority)]),
                    recommendations |-> r1 \o r2 \o r3,
                    risk_factors |-> f1 \o f2 \o f3,
                    confidence |-> MeanPositive(confidences)],
        stored |-> TRUE]

AdvisoryAgent_analyze(risk_analysis, forecast_analysis, sentiment_analysis, correlation_analysis) ==
    LET risk_level == Get(risk_analysis, "risk_level", "UNKNOWN")
        market_sentiment == Get(forecast_analysis, "market_sentiment", "UNKNOWN")
        sentiment_label == Get(sentiment_analysis, "overall_label", "NEUTRAL")
        corr_risk == Get(correlation_analysis, "risk_level", "UNKNOWN")
        diversification == Get(correlation_analysis, "diversification_score", 0)
        risk_alerts == Get(risk_analysis, "alerts", <<>>)
        sentiment_alerts == Get(sentiment_analysis, "alerts", <<>>)
        high_vol_alerts == SelectSeq(risk_alerts,
                               LAMBDA a : a.type \in {"HIGH_VOLATILITY", "VOLATILITY_SPIKE"})
        neg_sent_alerts == SelectSeq(sentiment_alerts, LAMBDA a : a.type = "NEGATIVE_SENTIMENT")
        act(action, priority) == [action |-> action, priority |-> priority]
        rec(category, urgency) == [category |-> category, urgency |-> urgency]
        a1 == IF risk_level \in {"HIGH", "CRITICAL"} THEN <<act("REDUCE_EXPOSURE", "HIGH")>> ELSE <<>>
        r1 == IF risk_level \in {"HIGH", "CRITICAL"} THEN <<rec("RISK_MANAGEMENT", "HIGH")>> ELSE <<>>
        f1 == IF risk_level \in {"HIGH", "CRITICAL"} THEN <<"High portfolio volatility detected">> ELSE <<>>
        bearneg == market_sentiment = "BEARISH" /\ sentiment_label = "NEGATIVE"
        bullpos == market_sentiment = "BULLISH" /\ sentiment_label = "POSITIVE"
        diverge == ~bearneg /\ ~bullpos /\ market_sentiment # sentiment_label
        a2 == IF bearneg THEN <<act("DEFENSIVE_POSITIONING", "HIGH")>> ELSE <<>>
        r2 == IF bearneg THEN <<rec("MARKET_OUTLOOK", "HIGH")>>
              ELSE IF bullpos THEN <<rec("MARKET_OUTLOOK", "LOW")>>
              ELSE IF diverge THEN <<rec("MARKET_OUTLOOK", "MEDIUM")>>
              ELSE <<>>
        f2 == IF bearneg THEN <<"Bearish forecast aligned with negative sentiment">>
              ELSE IF diverge THEN <<"Divergence between technical and sentiment signals">>
              ELSE <<>>
        a3 == IF corr_risk = "HIGH" THEN <<act("IMPROVE_DIVERSIFICATION", "MEDIUM")>> ELSE <<>>
        r3 == IF corr_risk = "HIGH" THEN <<rec("DIVERSIFICATION", "MEDIUM")>>
              ELSE IF diversification > 7000 THEN <<rec("DIVERSIFICATION", "LOW")>>
              ELSE <<>>
        f3 == IF corr_risk = "HIGH" THEN <<"High correlation reduces diversification benefit">> ELSE <<>>
        a4 == IF high_vol_alerts # <<>> /\ neg_sent_alerts # <<>>
              THEN <<act("RISK_REVIEW", "CRITICAL")>> ELSE <<>>
        priority_actions == a1 \o a2 \o a3 \o a4
        confidences == <<Get(risk_analysis, "confidence", 0),
                         Get(forecast_analysis, "confidence", 0),
                         Get(sentiment_analysis, "confidence", 0),
                         Get(correlation_analysis, "confidence", 0)>>
    IN [result |-> [overall_recommendation |->
                        AdvisoryAgent_generate_overall_recommendation(
                            risk_level, market_sentiment, sentiment_label, corr_risk),
                    priority_actions |-> SortStable(priority_actions,
                        [i \in 1..Len(priority_actions) |-> priority_order(priority_actions[i].priority)]),
                    recommendations |-> r1 \o r2 \o r3,
                    risk_factors |-> f1 \o f2 \o f3,
                    confidence |-> MeanPositive(confidences)],
        stored |-> TRUE]

(***************************************************************************)
(* return_signal() / return_confidence(): queries on <agent>.last_analysis *)
(***************************************************************************)
RiskAgent_return_signal(last) ==
    IF DOMAIN last = {} THEN "NO_DATA"
    ELSE LET risk_level == Get(last, "risk_level", "UNKNOWN")
         IN IF risk_level = "CRITICAL" THEN "DANGER"
            ELSE IF risk_level = "HIGH" THEN "CAUTION"
            ELSE IF risk_level = "MEDIUM" THEN "WATCH"
            ELSE "STABLE"

ForecastAgent_return_signal(last) ==
    IF DOMAIN last = {} THEN "NO_DATA"
    ELSE LET sentiment == Get(last, "market_sentiment", "UNKNOWN")
         IN IF sentiment = "BULLISH" THEN "BULLISH"
            ELSE IF sentiment = "BEARISH" THEN "BEARISH"
            ELSE "NEUTRAL"

SentimentAgent_return_signal(last) ==
    IF DOMAIN last = {} THEN "NO_DATA"
    ELSE LET label == Get(last, "overall_label", "NEUTRAL")
             score == Get(last, "overall_score", 0)
         IN IF label = "NEGATIVE"
            THEN (IF score < -50 THEN "VERY_NEGATIVE" ELSE "NEGATIVE")
            ELSE IF label = "POSITIVE"
            THEN (IF score > 50 THEN "VERY_POSITIVE" ELSE "POSITIVE")
            ELSE "NEUTRAL"

CorrelationAgent_return_signal(last) ==
    IF DOMAIN last = {} THEN "NO_DATA"
    ELSE LET risk_level == Get(last, "risk_level", "UNKNOWN")
         IN IF risk_level = "HIGH" THEN "HIGH_CORRELATION"
            ELSE IF risk_level = "MEDIUM" THEN "MODERATE_CORRELATION"
            ELSE "WELL_DIVERSIFIED"

AdvisoryAgent_return_signal(last) ==
    IF DOMAIN last = {} THEN "NO_DATA"
    ELSE Get(last, "overall_recommendation", "UNKNOWN")

\* <agent>.return_signal() when the agent's last_analysis is last
return_signal(agent_name, last) ==
    CASE agent_name = "risk" -> RiskAgent_return_signal(last)
      [] agent_name = "forecast" -> ForecastAgent_return_signal(last)
      [] agent_name = "sentiment" -> SentimentAgent_return_signal(last)
      [] agent_name = "correlation" -> CorrelationAgent_return_signal(last)
      [] agent_name = "advisory" -> AdvisoryAgent_return_signal(last)

\* the same method in each of the base agents
return_confidence(last) == Get(last, "confidence", 0)

(***************************************************************************)
(* ARIONEngine                                                             *)
(***************************************************************************)
\* mutant: the BEARISH and BULLISH scores exchanged
forecast_score_swapped(results) ==
    LET forecast_sentiment == Get(results["forecast"], "market_sentiment", "NEUTRAL")
    IN IF forecast_sentiment = "BEARISH" THEN 3000
       ELSE IF forecast_sentiment = "BULLISH" THEN 7000
       ELSE 5000

forecast_score(results) ==
    LET forecast_sentiment == Get(results["forecast"], "market_sentiment", "NEUTRAL")
    IN IF forecast_sentiment = "BEARISH" THEN 7000
       ELSE IF forecast_sentiment = "BULLISH" THEN 3000
       ELSE 5000

sentiment_score(results) ==
    LET sentiment_label == Get(results["sentiment"], "overall_label", "NEUTRAL")
        sentiment_score_raw == Get(results["sentiment"], "overall_score", 0)
    IN IF sentiment_label = "NEGATIVE" THEN 5000 + Abs(sentiment_score_raw) * 50
       ELSE IF sentiment_label = "POSITIVE" THEN 5000 - sentiment_score_raw * 50
       ELSE 5000

\* mutant: an UNKNOWN (or LOW) correlation result scored 50
correlation_score_neutral_default(results) ==
    LET corr_risk_level == Get(results["correlation"], "risk_level", "UNKNOWN")
    IN IF corr_risk_level = "HIGH" THEN 7500
       ELSE IF corr_risk_level = "MEDIUM" THEN 5000
       ELSE 5000

correlation_score(results) ==
    LET corr_risk_level == Get(results["correlation"], "risk_level", "UNKNOWN")
    IN IF corr_risk_level = "HIGH" THEN 7500
       ELSE IF corr_risk_level = "MEDIUM" THEN 5000
       ELSE 2500

\* risk_score * 0.40 + forecast_score * 0.20 + sentiment_score * 0.20 +
\* correlation_score * 0.20 (the division is exact on the inputs used)
weighted_combination(results) ==
    (Get(results["risk"], "overall_risk_score", 0) * 40
        + forecast_score(results) * 20
        + sentiment_score(results) * 20
        + correlation_score(results) * 20) \div 100

\* mutant: the four component scores added without weights, result not clamped
calculate_unified_risk_score_unclamped(results, old_unified_score) ==
    IF DOMAIN results = {}
    THEN [value |-> 0, unified_score |-> old_unified_score]
    ELSE LET u == Get(results["risk"], "overall_risk_score", 0) + forecast_score(results)
                      + sentiment_score(results) + correlation_score(results)
         IN [value |-> u, unified_score |-> u]

\* calculate_unified_risk_score: the value returned and self.unified_score
\* after the call.
calculate_unified_risk_score(results, old_unified_score) ==
    IF DOMAIN results = {}
    THEN [value |-> 0, unified_score |-> old_unified_score]
    ELSE LET u == Min(10000, Max(0, weighted_combination(results)))
         IN [value |-> u, unified_score |-> u]

\* mutant: the first threshold taken inclusive (a score of exactly 20 is LOW)
get_risk_level_inclusive(score) ==
    IF score <= 2000 THEN "LOW"
    ELSE IF score < 5000 THEN "MEDIUM"
    ELSE IF score < 8000 THEN "HIGH"
    ELSE "CRITICAL"

get_risk_level(score) ==
    IF score < 2000 THEN "LOW"
    ELSE IF score < 5000 THEN "MEDIUM"
    ELSE IF score < 8000 THEN "HIGH"
    ELSE "CRITICAL"

\* mutant: a severity that is not in the table ranked first
severity_order_unknown_first(alert) ==
    LET severity == IF alert.severity = Absent THEN "LOW" ELSE alert.severity
    IN CASE severity = "CRITICAL" -> 0
         [] severity = "HIGH" -> 1
         [] severity = "MEDIUM" -> 2
         [] severity = "LOW" -> 3
         [] OTHER -> 0

\* severity_order.get(x.get('severity', 'LOW'), 3)
severity_order(alert) ==
    LET severity == IF alert.severity = Absent THEN "LOW" ELSE alert.severity
    IN CASE severity = "CRITICAL" -> 0
         [] severity = "HIGH" -> 1
         [] severity = "MEDIUM" -> 2
         [] severity = "LOW" -> 3
         [] OTHER -> 3

Pos(agent_name) == CHOOSE i \in 1..Len(AgentNames) : AgentNames[i] = agent_name

\* mutant: the advisory result is not skipped
CollectAlerts_with_advisory(agent_name, result) ==
    LET alerts == Get(result, "alerts", <<>>)
        stamped == [i \in 1..Len(alerts) |-> [alerts[i] EXCEPT !.source = agent_name]]
    IN [alerts |-> stamped,
        result |-> IF "alerts" \in DOMAIN result
                   THEN [result EXCEPT !.alerts = stamped]
                   ELSE result]

\* One pass of the loop over agent_results.items(): the alerts appended to
\* all_alerts and the result as the pass leaves it.  alert['source'] =
\* agent_name is written into the alert dicts of the result itself.
CollectAlerts(agent_name, result) ==
    IF agent_name = "advisory"
    THEN [alerts |-> <<>>, result |-> result]
    ELSE LET alerts == Get(result, "alerts", <<>>)
             stamped == [i \in 1..Len(alerts) |-> [alerts[i] EXCEPT !.source = agent_name]]
         IN [alerts |-> stamped,
             result |-> IF "alerts" \in DOMAIN result
                        THEN [result EXCEPT !.alerts = stamped]
                        ELSE result]

\* get_all_alerts: the list returned, and agent_results as the call leaves it.
get_all_alerts(results) ==
    IF DOMAIN results = {}
    THEN [all_alerts |-> <<>>, agent_results |-> results]
    ELSE LET pass == [i \in 1..Len(AgentNames) |->
                         CollectAlerts(AgentNames[i], results[AgentNames[i]])]
             collected == Flatten([i \in 1..Len(AgentNames) |-> pass[i].alerts])
             keys == [i \in 1..Len(collected) |-> severity_order(collected[i])]
         IN [all_alerts |-> SortStable(collected, keys),
             agent_results |-> [a \in DOMAIN results |-> pass[Pos(a)].result]]

\* run_all_agents: the five analyze() calls in order.  fault names the agent
\* whose analyze() raises ("none": no agent raises); the agents before it have
\* run, the agents after it have not.
run_all_agents(data, news, fault, last) ==
    LET risk == RiskAgent_analyze(data)
        forecast == ForecastAgent_analyze(data)
        sentiment == SentimentAgent_analyze(news)
        correlation == CorrelationAgent_analyze(data)
        advisory == AdvisoryAgent_analyze(risk.result, forecast.result,
                                          sentiment.result, correlation.result)
        out == [a \in AgentSet |->
                   CASE a = "risk" -> risk
                     [] a = "forecast" -> forecast
                     [] a = "sentiment" -> sentiment
                     [] a = "correlation" -> correlation
                     [] a = "advisory" -> advisory]
        completed(a) == fault = "none" \/ Pos(a) < Pos(fault)
    IN [raised |-> fault # "none",
        results |-> [a \in AgentSet |-> out[a].result],
        stored |-> {a \in AgentSet : completed(a) /\ out[a].stored},
        last_analysis |-> [a \in AgentSet |->
                              IF completed(a) /\ out[a].stored THEN out[a].result ELSE last[a]]]

(***************************************************************************)
(* What the data supplier can deliver                                      *)
(***************************************************************************)
NoRisk == [score |-> 0, alerts |-> <<>>, confidence |-> 0]
NoForecast == [directions |-> <<>>, confidence |-> 0]
NoCorr == [rows |-> 0, avg |-> 0, increases |-> 0]
EmptyMarket == [nsym |-> 0, risk |-> NoRisk, forecast |-> NoForecast, corr |-> NoCorr]
EmptyNews == [keys |-> 0, scored |-> <<>>]

Market(nsym, risk, forecast, corr) ==
    [nsym |-> nsym, risk |-> risk, forecast |-> forecast,
     corr |-> IF nsym < 2 THEN NoCorr ELSE corr]

RiskDigest(score, alerts, confidence) ==
    [score |-> score, alerts |-> alerts, confidence |-> confidence]
HV(sev) == Alert("HIGH_VOLATILITY", sev, "AAPL")
DD(sev) == Alert("SIGNIFICANT_DRAWDOWN", sev, "AAPL")
SPIKE == Alert("VOLATILITY_SPIKE", "MEDIUM", "AAPL")
Scored(symbol, score, articles) == [symbol |-> symbol, score |-> score, articles |-> articles]
Corr(rows, avg, increases) == [rows |-> rows, avg |-> avg, increases |-> increases]
Forecasts(directions, confidence) == [directions |-> directions, confidence |-> confidence]

\* fetch_stock_data either raises or delivers a map (possibly empty)
Delivery(m, n) == [raises |-> FALSE, market |-> m, news |-> n]
SupplierRaises == [raises |-> TRUE, market |-> EmptyMarket, news |-> EmptyNews]

\* a few deliveries, for behaviours of several runs
NarrowRisk == {RiskDigest(0, <<>>, 50), RiskDigest(10000, <<HV("HIGH"), SPIKE>>, 100)}
NarrowForecast == {Forecasts(<<>>, 0), Forecasts(<<"DOWN">>, 50)}
NarrowCorr == {Corr(10, 0, 0), Corr(90, 95, 1)}
NarrowNews == {[keys |-> 1, scored |-> <<>>],
               [keys |-> 1, scored |-> <<Scored("AAPL", -80, 10)>>]}
NarrowMarkets ==
    {EmptyMarket}
    \cup {Market(2, r, f, c) : r \in NarrowRisk, f \in NarrowForecast, c \in NarrowCorr}
    \cup {Market(1, r, Forecasts(<<"DOWN">>, 50), NoCorr) : r \in NarrowRisk}
NarrowFeeds == {Delivery(m, n) : m \in NarrowMarkets, n \in NarrowNews}

\* many deliveries, for one run
WideRisk == {RiskDigest(0, <<>>, 50),
             RiskDigest(4995, <<SPIKE>>, 100),
             RiskDigest(5000, <<HV("MEDIUM")>>, 100),
             RiskDigest(9995, <<HV("HIGH"), DD("MEDIUM")>>, 50),
             RiskDigest(10000, <<HV("HIGH"), DD("HIGH"), SPIKE>>, 100)}
WideForecast == {Forecasts(<<>>, 0), Forecasts(<<"UP">>, 50), Forecasts(<<"DOWN">>, 50),
                 Forecasts(<<"UP", "DOWN">>, 50), Forecasts(<<"FLAT">>, 100)}
WideCorr == {Corr(10, 0, 0), Corr(30, 0, 0), Corr(30, 65, 0), Corr(30, -75, 0), Corr(90, 95, 1)}
WideNews == {[keys |-> 1, scored |-> <<>>],
             [keys |-> 1, scored |-> <<Scored("AAPL", -100, 10)>>],
             [keys |-> 1, scored |-> <<Scored("AAPL", -60, 5)>>],
             [keys |-> 1, scored |-> <<Scored("AAPL", -50, 5)>>],
             [keys |-> 1, scored |-> <<Scored("AAPL", 10, 5)>>],
             [keys |-> 1, scored |-> <<Scored("AAPL", 60, 20)>>],
             [keys |-> 1, scored |-> <<Scored("AAPL", 62, 10)>>],
             [keys |-> 2, scored |-> <<Scored("AAPL", -100, 10), Scored("MSFT", 60, 10)>>]}
WideMarkets ==
    {EmptyMarket}
    \cup {Market(2, r, f, c) : r \in WideRisk, f \in WideForecast, c \in WideCorr}
    \cup {Market(1, r, f, NoCorr) : r \in WideRisk, f \in WideForecast}
WideFeeds == {Delivery(m, n) : m \in WideMarkets, n \in WideNews}

Faults == {"none"} \cup AgentSet

(***************************************************************************)
(* run()                                                                   *)
(***************************************************************************)
Init ==
    /\ market_data = EmptyMarket
    /\ news_data = EmptyNews
    /\ agent_results = EmptyDict
    /\ unified_score = 0
    /\ last_analysis = [a \in AgentSet |-> EmptyDict]
    /\ ret = [kind |-> "none"]
    /\ runs = 0
    /\ env = [fetch |-> "none", raised |-> "none"]

\* mutant: run() answers a run without data with a summary of score 0
NoDataOutcome_zero_summary ==
    [kind |-> "summary", unified_risk_score |-> 0, risk_level |-> "LOW",
     agent_results |-> EmptyDict, all_alerts |-> <<>>]

\* run() returns {} when fetch_all_data() is false
NoDataOutcome == [kind |-> "empty"]

\* mutant: the exception is caught and run() returns {}
RaisedOutcome_swallowed(agent_name) == [kind |-> "empty"]

\* run() has no handler around run_all_agents(): an exception raised by an
\* agent leaves run() and reaches the caller
RaisedOutcome(agent_name) == [kind |-> "raised", by |-> agent_name]

\* fetch: the outcome of the supplier calls made by fetch_all_data.
Run(fetch, fault) ==
    /\ runs < MaxRuns
    /\ runs' = runs + 1
    /\ IF fetch.raises
       THEN \* fetch_all_data: except branch, nothing was assigned
            /\ ret' = NoDataOutcome
            /\ env' = [fetch |-> "raised", raised |-> "none"]
            /\ UNCHANGED <<market_data, news_data, agent_results, unified_score, last_analysis>>
       ELSE /\ market_data' = fetch.market
            /\ news_data' = fetch.news
            /\ IF ~(fetch.market.nsym > 0)
               THEN /\ ret' = NoDataOutcome
                    /\ env' = [fetch |-> "empty", raised |-> "none"]
                    /\ UNCHANGED <<agent_results, unified_score, last_analysis>>
               ELSE LET agents == run_all_agents(fetch.market, fetch.news, fault, last_analysis)
                    IN /\ env' = [fetch |-> "data", raised |-> fault]
                       /\ IF agents.raised
                          THEN /\ ret' = RaisedOutcome(fault)
                               /\ last_analysis' = agents.last_analysis
                               /\ UNCHANGED <<agent_results, unified_score>>
                          ELSE LET score == calculate_unified_risk_score(agents.results, unified_score)
                                   merged == get_all_alerts(agents.results)
                               IN /\ agent_results' = merged.agent_results
                                  /\ unified_score' = score.unified_score
                                  /\ last_analysis' =
                                         [a \in AgentSet |->
                                             IF a \in agents.stored
                                             THEN merged.agent_results[a]
                                             ELSE last_analysis[a]]
                                  /\ ret' = [kind |-> "summary",
                                             unified_risk_score |-> score.unified_score,
                                             risk_level |-> get_risk_level(score.unified_score),
                                             agent_results |-> merged.agent_results,
                                             all_alerts |-> merged.all_alerts]

Next == \E fetch \in {SupplierRaises} \cup NarrowFeeds, fault \in Faults : Run(fetch, fault)

Spec == Init /\ [][Next]_vars

\* one run over many deliveries
NextOnce == \E fetch \in {SupplierRaises} \cup WideFeeds, fault \in Faults : runs = 0 /\ Run(fetch, fault)

SpecOnce == Init /\ [][NextOnce]_vars

(***************************************************************************)
(* get_all_alerts applied to arbitrary agent results                       *)
(***************************************************************************)
Severities == {"CRITICAL", "HIGH", "MEDIUM", "LOW", "INFO", Absent}
AnyAlerts == {Alert("ALERT", sev, Absent) : sev \in Severities}

RECURSIVE SeqsUpTo(_, _)
SeqsUpTo(S, n) ==
    IF n = 0 THEN {<<>>}
    ELSE LET shorter == SeqsUpTo(S, n - 1)
         IN shorter \cup {Append(q, x) : q \in {r \in shorter : Len(r) = n - 1}, x \in S}

\* results whose alert lists hold at most MaxAlerts alerts in all; the
\* forecast result has no 'alerts' key unless it is given alerts, the advisory
\* result may carry a list of its own
\* the elements of q after the first lo, up to the hi-th
Cut(q, lo, hi) == IF hi <= lo THEN <<>> ELSE SubSeq(q, lo + 1, hi)

ResultsOf(q, c1, c2, c3, nokey, adv) ==
    [a \in AgentSet |->
        CASE a = "risk" -> [alerts |-> Cut(q, 0, c1)]
          [] a = "forecast" -> IF c1 = c2 /\ nokey
                               THEN [market_sentiment |-> "UNKNOWN"]
                               ELSE [alerts |-> Cut(q, c1, c2)]
          [] a = "sentiment" -> [alerts |-> Cut(q, c2, c3)]
          [] a = "correlation" -> [alerts |-> Cut(q, c3, Len(q))]
          [] a = "advisory" -> IF adv THEN [alerts |-> <<Alert("ALERT", "CRITICAL", Absent)>>]
                               ELSE [priority_actions |-> <<>>]]

InitAlerts ==
    /\ market_data = EmptyMarket
    /\ news_data = EmptyNews
    /\ \E q \in SeqsUpTo(AnyAlerts, MaxAlerts) :
          \E c1 \in 0..Len(q) : \E c2 \in c1..Len(q) : \E c3 \in c2..Len(q) :
             \E nokey \in {c1 # c2, TRUE}, adv \in BOOLEAN :
                agent_results = ResultsOf(q, c1, c2, c3, nokey, adv)
    /\ unified_score = 0
    /\ last_analysis = [a \in AgentSet |-> EmptyDict]
    /\ ret = [kind |-> "none"]
    /\ runs = 0
    /\ env = [fetch |-> "none", raised |-> "none"]

CallGetAllAlerts ==
    LET merged == get_all_alerts(agent_results)
    IN /\ agent_results' = merged.agent_results
       /\ ret' = [kind |-> "alerts", all_alerts |-> merged.all_alerts]
       /\ UNCHANGED <<market_data, news_data, unified_score, last_analysis, runs, env>>

NextAlerts == CallGetAllAlerts

SpecAlerts == InitAlerts /\ [][NextAlerts]_vars

(***************************************************************************)
(* The base agents applied to price tables and news maps                   *)
(***************************************************************************)
MaxSymbols == 2       \* symbols in the map handed to an agent

Symbols == <<"AAPL", "MSFT", "GOOGL", "TSLA">>
volatility_threshold == 30
drawdown_threshold == -15

\* What the model-fitting steps of ForecastAgent do for one symbol:
\* "features_raise": _prepare_features raises; "no_features": the feature
\* table is empty; "fit_raise": _train_and_predict raises; "ok": a prediction.
Outcome(outcome, predicted_direction, confidence) ==
    [outcome |-> outcome, predicted_direction |-> predicted_direction, confidence |-> confidence]
NoOutcome == Outcome("no_features", "FLAT", 0)

\* One DataFrame of the map, by what the agents read from it: len(df),
\* whether it has a Returns column, the number of non-NaN values among its
\* last 20 returns, the annualised volatility of those, the last drawdown, the
\* annualised volatility of all but the last 20 returns, and the forecast steps.
\* indicators: whether the table carries the feature columns of the forecast
\* (SMA_5 ... Target); the supplier delivers it without them.
Frame(rows, returns_col, valid, vol, dd, hist_vol, fc) ==
    [symbol |-> "", rows |-> rows, returns_col |-> returns_col, valid |-> valid,
     vol |-> vol, dd |-> dd, hist_vol |-> hist_vol, fc |-> fc, indicators |-> FALSE]

\* the date-aligned returns table of the symbols that have a return series
Joint(rows, avg, increases) == [rows |-> rows, avg |-> avg, increases |-> increases]
NoJoint == Joint(0, 0, 0)

\* RiskAgent.analyze, the loop over data.items()
RiskAgent_scored(df) == ~(df.rows = 0 \/ ~df.returns_col) /\ ~(df.valid < 5)

RiskAgent_risk_score(df) ==
    LET vol_score == Min(10000, (df.vol * 5000) \div volatility_threshold)
        dd_score == Min(10000, (Abs(df.dd) * 5000) \div Abs(drawdown_threshold))
    IN (vol_score + dd_score) \div 2

RiskAgent_alerts(df) ==
    (IF df.vol > volatility_threshold
     THEN <<Alert("HIGH_VOLATILITY",
                  IF 2 * df.vol > 3 * volatility_threshold THEN "HIGH" ELSE "MEDIUM",
                  df.symbol)>>
     ELSE <<>>)
    \o (IF df.dd < drawdown_threshold
        THEN <<Alert("SIGNIFICANT_DRAWDOWN",
                     IF 2 * df.dd < 3 * drawdown_threshold THEN "HIGH" ELSE "MEDIUM",
                     df.symbol)>>
        ELSE <<>>)
    \o (IF df.rows > 60 /\ 2 * df.vol > 3 * df.hist_vol
        THEN <<Alert("VOLATILITY_SPIKE", "MEDIUM", df.symbol)>>
        ELSE <<>>)

RiskAgent_calculate_confidence(frames) ==
    IF frames = <<>> THEN 0
    ELSE SumSeq([i \in 1..Len(frames) |->
                    IF frames[i].rows >= 60 THEN 100
                    ELSE IF frames[i].rows >= 20 THEN 50
                    ELSE 0]) \div Len(frames)

RECURSIVE MaxOf(_)
MaxOf(s) == IF s = <<>> THEN 0 ELSE IF Len(s) = 1 THEN s[1] ELSE Max(Head(s), MaxOf(Tail(s)))

RiskDigestOf(frames) ==
    LET scored == SelectSeq(frames, RiskAgent_scored)
        risk_scores == [i \in 1..Len(scored) |-> RiskAgent_risk_score(scored[i])]
    IN [score |-> IF risk_scores # <<>> THEN SumSeq(risk_scores) \div Len(risk_scores) ELSE 0,
        alerts |-> Flatten([i \in 1..Len(scored) |-> RiskAgent_alerts(scored[i])]),
        confidence |-> RiskAgent_calculate_confidence(frames),
        individual_scores |-> risk_scores,
        max_risk_score |-> MaxOf(risk_scores)]

\* mutant: the loop ends at the first symbol whose model steps raise
RECURSIVE ForecastAgent_forecasts_abort(_)
ForecastAgent_forecasts_abort(frames) ==
    IF frames = <<>> THEN <<>>
    ELSE LET df == Head(frames)
         IN IF df.rows = 0 \/ df.rows < 30 THEN ForecastAgent_forecasts_abort(Tail(frames))
            ELSE IF df.fc.outcome = "features_raise" THEN <<>>
            ELSE IF df.fc.outcome = "no_features" THEN ForecastAgent_forecasts_abort(Tail(frames))
            ELSE IF df.fc.outcome = "fit_raise" THEN <<>>
            ELSE <<[symbol |-> df.symbol,
                    predicted_direction |-> df.fc.predicted_direction,
                    confidence |-> df.fc.confidence]>>
                 \o ForecastAgent_forecasts_abort(Tail(frames))

\* ForecastAgent.analyze, the loop over data.items(): the forecasts dict.
\* An exception of the steps inside try is caught and the loop continues.
RECURSIVE ForecastAgent_forecasts(_)
ForecastAgent_forecasts(frames) ==
    IF frames = <<>> THEN <<>>
    ELSE LET df == Head(frames)
         IN IF df.rows = 0 \/ df.rows < 30 THEN ForecastAgent_forecasts(Tail(frames))
            ELSE IF df.fc.outcome = "features_raise" THEN ForecastAgent_forecasts(Tail(frames))
            ELSE IF df.fc.outcome = "no_features" THEN ForecastAgent_forecasts(Tail(frames))
            ELSE IF df.fc.outcome = "fit_raise" THEN ForecastAgent_forecasts(Tail(frames))
            ELSE <<[symbol |-> df.symbol,
                    predicted_direction |-> df.fc.predicted_direction,
                    confidence |-> df.fc.confidence]>>
                 \o ForecastAgent_forecasts(Tail(frames))

ForecastDigestOf(frames) ==
    LET forecasts == ForecastAgent_forecasts(frames)
        confidences == [i \in 1..Len(forecasts) |-> forecasts[i].confidence]
    IN [directions |-> [i \in 1..Len(forecasts) |-> forecasts[i].predicted_direction],
        confidence |-> IF confidences # <<>> THEN SumSeq(confidences) \div Len(confidences) ELSE 0,
        symbols |-> [i \in 1..Len(forecasts) |-> forecasts[i].symbol]]

\* CorrelationAgent.analyze, the returns matrix
HasReturns(df) == df.returns_col /\ df.rows > 0

CorrDigestOf(frames, joint) ==
    LET returns_dict == SelectSeq(frames, HasReturns)
    IN IF Len(frames) < 2 \/ Len(returns_dict) < 2
       THEN NoCorr
       ELSE Corr(joint.rows, joint.avg, joint.increases)

DataOf(frames, joint) ==
    [nsym |-> Len(frames),
     risk |-> RiskDigestOf(frames),
     forecast |-> ForecastDigestOf(frames),
     corr |-> CorrDigestOf(frames, joint),
     tables |-> frames,
     joint |-> joint]

\* the maps handed to the agents
Named(frames) == [i \in 1..Len(frames) |-> [frames[i] EXCEPT !.symbol = Symbols[i]]]

RiskFrames ==
    {Frame(0, TRUE, 0, 0, 0, 0, NoOutcome),
     Frame(3, TRUE, 3, 48, -24, 0, NoOutcome),
     Frame(25, FALSE, 0, 0, 0, 0, NoOutcome),
     Frame(25, TRUE, 20, 0, 0, 0, NoOutcome),
     Frame(25, TRUE, 5, 30, -15, 0, NoOutcome),
     Frame(60, TRUE, 20, 45, -21, 20, NoOutcome),
     Frame(61, TRUE, 20, 48, -24, 20, NoOutcome),
     Frame(90, TRUE, 20, 90, -60, 80, NoOutcome)}

ForecastFrames ==
    {Frame(29, TRUE, 20, 0, 0, 0, Outcome("ok", "UP", 60)),
     Frame(30, TRUE, 20, 0, 0, 0, Outcome("features_raise", "FLAT", 0)),
     Frame(30, TRUE, 20, 0, 0, 0, NoOutcome),
     Frame(45, TRUE, 20, 0, 0, 0, Outcome("fit_raise", "FLAT", 0)),
     Frame(61, TRUE, 20, 0, 0, 0, Outcome("ok", "UP", 60)),
     Frame(61, TRUE, 20, 0, 0, 0, Outcome("ok", "DOWN", 40)),
     Frame(61, TRUE, 20, 0, 0, 0, Outcome("ok", "FLAT", 100))}

CorrelationFrames ==
    {Frame(0, TRUE, 0, 0, 0, 0, NoOutcome),
     Frame(25, FALSE, 0, 0, 0, 0, NoOutcome),
     Frame(25, TRUE, 20, 0, 0, 0, NoOutcome),
     Frame(90, TRUE, 20, 0, 0, 0, NoOutcome)}

Joints ==
    {NoJoint, Joint(19, 95, 0), Joint(20, 0, 0), Joint(20, 65, 0), Joint(20, -75, 0),
     Joint(61, 95, 1), Joint(61, -100, 0),
     Joint(20, 60, 0), Joint(20, -61, 0), Joint(20, 70, 0), Joint(20, 71, 0),
     Joint(20, 80, 0), Joint(20, -81, 0), Joint(30, 95, 0)}

\* the average correlation is nan when no pair of series has a defined
\* correlation (a series of zero variance)
UndefinedJoints == {Joint(20, NaN, 0), Joint(61, NaN, 0)}

\* the aligned table has no more rows than the shortest series; there is none
\* with fewer than two series
JointsOf(frames, defined) ==
    LET series == SelectSeq(frames, HasReturns)
    IN IF Len(series) < 2 THEN (IF defined THEN {NoJoint} ELSE {})
       ELSE {j \in (IF defined THEN Joints ELSE UndefinedJoints) :
                \A i \in 1..Len(series) : j.rows <= series[i].rows}

\* maps whose headline averages sit on and next to the alert thresholds, and
\* a map of three symbols
AlertNews ==
    {[keys |-> 1, scored |-> <<Scored("AAPL", x, 10)>>] : x \in {-71, -70, -51, 50, 51, 0}}
    \cup {[keys |-> 2, scored |-> <<Scored("AAPL", -70, 5), Scored("MSFT", 50, 5)>>],
          [keys |-> 3, scored |-> <<Scored("AAPL", 80, 10), Scored("MSFT", 60, 10),
                                    Scored("GOOGL", -10, 10)>>],
          [keys |-> 3, scored |-> <<Scored("AAPL", -80, 10), Scored("MSFT", 0, 0),
                                    Scored("GOOGL", 90, 10)>>]}

NewsMaps == {EmptyNews, [keys |-> 2, scored |-> <<>>]} \cup WideNews \cup AlertNews

AnalyzeOf(agent_name, data, news) ==
    CASE agent_name = "risk" -> RiskAgent_analyze(data)
      [] agent_name = "forecast" -> ForecastAgent_analyze(data)
      [] agent_name = "sentiment" -> SentimentAgent_analyze(news)
      [] agent_name = "correlation" -> CorrelationAgent_analyze(data)

\* one analyze() call on a fresh agent
CallAnalyze(agent_name, data, news) ==
    /\ runs = 0
    /\ runs' = runs + 1
    /\ market_data' = data
    /\ news_data' = news
    /\ LET out == AnalyzeOf(agent_name, data, news)
       IN /\ ret' = [kind |-> "result", agent |-> agent_name, result |-> out.result]
          /\ last_analysis' = [last_analysis EXCEPT
                                   ![agent_name] = IF out.stored THEN out.result ELSE @]
    /\ UNCHANGED <<agent_results, unified_score, env>>

NextAgents ==
    \/ \E frames \in SeqsUpTo(RiskFrames, MaxSymbols) :
          CallAnalyze("risk", DataOf(Named(frames), NoJoint), EmptyNews)
    \/ \E frames \in SeqsUpTo(ForecastFrames, MaxSymbols) :
          CallAnalyze("forecast", DataOf(Named(frames), NoJoint), EmptyNews)
    \/ \E news \in NewsMaps :
          CallAnalyze("sentiment", EmptyMarket, news)
    \/ \E frames \in SeqsUpTo(CorrelationFrames, MaxSymbols) :
          \E defined \in BOOLEAN : \E joint \in JointsOf(frames, defined) :
             CallAnalyze("correlation", DataOf(Named(frames), joint), EmptyNews)

SpecAgents == Init /\ [][NextAgents]_vars

(***************************************************************************)
(* AdvisoryAgent.analyze applied to arbitrary results of the base agents   *)
(***************************************************************************)
RiskLevels == {"LOW", "MEDIUM", "HIGH", "CRITICAL", "UNKNOWN"}
ForecastLabels == {"BULLISH", "BEARISH", "NEUTRAL", "UNKNOWN"}
SentimentLabels == {"POSITIVE", "NEGATIVE", "NEUTRAL"}
CorrelationLevels == {"HIGH", "MEDIUM", "LOW", "UNKNOWN"}
AnyRiskAlerts == {<<>>, <<DD("HIGH")>>, <<HV("MEDIUM")>>, <<DD("MEDIUM"), SPIKE>>}
AnySentimentAlerts == {<<>>,
                       <<Alert("POSITIVE_SENTIMENT", "LOW", "AAPL")>>,
                       <<Alert("NEGATIVE_SENTIMENT", "HIGH", "AAPL")>>}
\* the confidences of the risk, forecast, sentiment and correlation results
AnyConfidences == {<<0, 0, 0, 0>>, <<50, 0, 0, 0>>, <<40, 60, 0, 80>>, <<100, 60, 100, 80>>}

InputsOf(rl, ra, ml, sl, sa, cl, dv, cf) ==
    [a \in AgentSet |->
        CASE a = "risk" -> [risk_level |-> rl, alerts |-> ra, confidence |-> cf[1]]
          [] a = "forecast" -> [market_sentiment |-> ml, confidence |-> cf[2]]
          [] a = "sentiment" -> [overall_label |-> sl, alerts |-> sa, confidence |-> cf[3]]
          [] a = "correlation" -> [risk_level |-> cl, diversification_score |-> dv,
                                   alerts |-> <<>>, confidence |-> cf[4]]
          [] a = "advisory" -> EmptyDict]

InitAdvisory ==
    /\ market_data = EmptyMarket
    /\ news_data = EmptyNews
    /\ \E rl \in RiskLevels, ra \in AnyRiskAlerts, ml \in ForecastLabels,
          sl \in SentimentLabels, sa \in AnySentimentAlerts,
          cl \in CorrelationLevels, dv \in {0, 8000}, cf \in AnyConfidences :
             agent_results = InputsOf(rl, ra, ml, sl, sa, cl, dv, cf)
    /\ unified_score = 0
    /\ last_analysis = [a \in AgentSet |-> EmptyDict]
    /\ ret = [kind |-> "none"]
    /\ runs = 0
    /\ env = [fetch |-> "none", raised |-> "none"]

CallAdvisoryAnalyze ==
    LET out == AdvisoryAgent_analyze(agent_results["risk"], agent_results["forecast"],
                                     agent_results["sentiment"], agent_results["correlation"])
    IN /\ agent_results' = [agent_results EXCEPT !["advisory"] = out.result]
       /\ last_analysis' = [last_analysis EXCEPT !["advisory"] = out.result]
       /\ ret' = [kind |-> "advisory", result |-> out.result]
       /\ UNCHANGED <<market_data, news_data, unified_score, runs, env>>

NextAdvisory == CallAdvisoryAnalyze

SpecAdvisory == InitAdvisory /\ [][NextAdvisory]_vars

(***************************************************************************)
(* The four base agents of one run as four tasks                           *)
(***************************************************************************)
\* mutant: the feature columns are written to the caller's table
ForecastAgent_prepare_features_in_place(df) ==
    [features_df |-> [df EXCEPT !.indicators = TRUE],
     df |-> [df EXCEPT !.indicators = TRUE]]

\* _prepare_features(df): features_df = df.copy() receives the feature
\* columns; df is the caller's table as the call leaves it.
ForecastAgent_prepare_features(df) ==
    [features_df |-> [df EXCEPT !.indicators = TRUE],
     df |-> df]

\* the map as ForecastAgent.analyze leaves it: _prepare_features is applied to
\* the tables that are not skipped
ForecastAgent_tables(frames) ==
    [i \in 1..Len(frames) |->
        IF frames[i].rows = 0 \/ frames[i].rows < 30 THEN frames[i]
        ELSE ForecastAgent_prepare_features(frames[i]).df]

\* the map as <agent>.analyze leaves it; the risk and correlation agents only
\* read columns of the tables
TablesAfter(agent_name, frames) ==
    IF agent_name = "forecast" THEN ForecastAgent_tables(frames) ELSE frames

SharedFrames ==
    {Frame(0, TRUE, 0, 0, 0, 0, NoOutcome),
     Frame(25, TRUE, 20, 45, -21, 0, NoOutcome),
     Frame(61, TRUE, 20, 48, -24, 20, Outcome("ok", "UP", 60)),
     Frame(90, TRUE, 20, 90, -60, 80, Outcome("fit_raise", "FLAT", 0))}

SharedJoints == {NoJoint, Joint(20, 65, 0), Joint(61, 95, 1)}

\* what an earlier run left in the agents
StaleAnalyses ==
    run_all_agents(Market(2, RiskDigest(0, <<>>, 50), Forecasts(<<"DOWN">>, 50), Corr(90, 95, 1)),
                   [keys |-> 1, scored |-> <<Scored("AAPL", -80, 10)>>],
                   "none", [a \in AgentSet |-> EmptyDict]).last_analysis

\* fetch_all_data has delivered a non-empty map; no task has started.
\* env.pc: where each task is; env.local: the result a task has computed;
\* ret.results: the results handed back, ret.order: the order they came in.
InitTasks ==
    /\ \E frames \in SeqsUpTo(SharedFrames, MaxSymbols) \ {<<>>} :
          \E joint \in JointsOf(frames, TRUE) \cap SharedJoints :
             market_data = DataOf(Named(frames), joint)
    /\ news_data \in NarrowNews
    /\ agent_results = EmptyDict
    /\ unified_score = 0
    /\ last_analysis \in {[a \in AgentSet |-> EmptyDict], StaleAnalyses}
    /\ ret = [kind |-> "tasks", results |-> [a \in BaseAgentSet |-> EmptyDict], order |-> <<>>]
    /\ runs = 0
    /\ env = [fetch |-> "data", raised |-> "none",
              pc |-> [a \in BaseAgentSet |-> "idle"],
              local |-> [a \in BaseAgentSet |-> [result |-> EmptyDict, stored |-> FALSE]]]

\* <agent>.analyze up to the assignment of self.last_analysis: the agent reads
\* the map as it is when the task runs
Compute(agent_name) ==
    /\ env.pc[agent_name] = "idle"
    /\ LET data == DataOf(market_data.tables, market_data.joint)
       IN /\ env' = [env EXCEPT !.pc[agent_name] = "computed",
                                !.local[agent_name] = AnalyzeOf(agent_name, data, news_data)]
          /\ market_data' = DataOf(TablesAfter(agent_name, market_data.tables), market_data.joint)
    /\ UNCHANGED <<news_data, agent_results, unified_score, last_analysis, ret, runs>>

\* self.last_analysis = {...}; return self.last_analysis
Store(agent_name) ==
    /\ env.pc[agent_name] = "computed"
    /\ last_analysis' = [last_analysis EXCEPT ![agent_name] =
                            IF env.local[agent_name].stored
                            THEN env.local[agent_name].result ELSE @]
    /\ ret' = [ret EXCEPT !.results[agent_name] = env.local[agent_name].result,
                          !.order = Append(@, agent_name)]
    /\ env' = [env EXCEPT !.pc[agent_name] = "done"]
    /\ UNCHANGED <<market_data, news_data, agent_results, unified_score, runs>>

NextTasks == \E agent_name \in BaseAgentSet : Compute(agent_name) \/ Store(agent_name)

SpecTasks == InitTasks /\ [][NextTasks]_vars

(***************************************************************************)
(* The /api/risk handler (src/arion/backend/api.py)                        *)
(***************************************************************************)
\* dict.get(key) of a key that is not there; told apart by its printed form
None == "None"
IsNone(x) == ToString(x) = ToString(None)

\* sample_summary.json does not exist
NoSample == [kind |-> "missing"]

\* engine = ARIONEngine(symbol_list); summary = engine.run(period): what run()
\* gives on a new engine, and the agents' last_analysis after it
FreshRun(fetch, fault) ==
    LET fresh == [a \in AgentSet |-> EmptyDict]
    IN IF fetch.raises \/ ~(fetch.market.nsym > 0)
       THEN [ret |-> NoDataOutcome, last_analysis |-> fresh]
       ELSE LET agents == run_all_agents(fetch.market, fetch.news, fault, fresh)
            IN IF agents.raised
               THEN [ret |-> RaisedOutcome(fault), last_analysis |-> agents.last_analysis]
               ELSE LET score == calculate_unified_risk_score(agents.results, 0)
                        merged == get_all_alerts(agents.results)
                    IN [ret |-> [kind |-> "summary",
                                 unified_risk_score |-> score.unified_score,
                                 risk_level |-> get_risk_level(score.unified_score),
                                 agent_results |-> merged.agent_results,
                                 all_alerts |-> merged.all_alerts],
                        last_analysis |-> [a \in AgentSet |->
                                              IF a \in agents.stored
                                              THEN merged.agent_results[a]
                                              ELSE fresh[a]]]

\* resp = {...}: summary.get(...) of the dict run() returned, which is {} when
\* no data was fetched
Response(summary, last) ==
    [kind |-> "response",
     unified_risk_score |-> IF summary.kind = "summary" THEN summary.unified_risk_score ELSE None,
     risk_level |-> IF summary.kind = "summary" THEN summary.risk_level ELSE None,
     agent_signals |-> [a \in AgentSet |-> return_signal(a, last[a])],
     agent_results |-> IF summary.kind = "summary" THEN summary.agent_results ELSE EmptyDict,
     all_alerts |-> IF summary.kind = "summary" THEN summary.all_alerts ELSE <<>>]

\* the last resort of the except branch
MinimalShape ==
    [kind |-> "minimal", unified_risk_score |-> None, risk_level |-> "unknown",
     agent_signals |-> EmptyDict, agent_results |-> EmptyDict, all_alerts |-> <<>>]

\* the service has started and no sample has been written; env.sample is the
\* content of sample_summary.json
InitApi ==
    /\ market_data = EmptyMarket
    /\ news_data = EmptyNews
    /\ agent_results = EmptyDict
    /\ unified_score = 0
    /\ last_analysis = [a \in AgentSet |-> EmptyDict]
    /\ ret = [kind |-> "none"]
    /\ runs = 0
    /\ env = [fetch |-> "none", raised |-> "none", sample |-> NoSample]

\* One request.  The engine is local to the request; an exception that leaves
\* engine.run() is caught and answered with the sample, if there is one.
get_risk(fetch, fault) ==
    /\ runs < MaxRuns
    /\ runs' = runs + 1
    /\ LET run == FreshRun(fetch, fault)
       IN IF run.ret.kind = "raised"
          THEN /\ ret' = IF env.sample.kind # "missing" THEN env.sample ELSE MinimalShape
               /\ env' = [env EXCEPT !.fetch = "data", !.raised = fault]
          ELSE LET resp == Response(run.ret, run.last_analysis)
               IN /\ ret' = resp
                  /\ env' = [fetch |-> IF fetch.raises THEN "raised"
                                       ELSE IF run.ret.kind = "empty" THEN "empty" ELSE "data",
                             raised |-> "none",
                             sample |-> resp]
    /\ UNCHANGED <<market_data, news_data, agent_results, unified_score, last_analysis>>

NextApi == \E fetch \in {SupplierRaises} \cup NarrowFeeds, fault \in Faults : get_risk(fetch, fault)

SpecApi == InitApi /\ [][NextApi]_vars

(***************************************************************************)
(* DataFetcher._download_batch (src/arion/backend/utils/fetch_data.py)     *)
(***************************************************************************)
\* backoff_base in milliseconds (the default is 1.0 s)
BackoffBases == {0, 500, 1000}

RECURSIVE Pow2(_)
Pow2(n) == IF n = 0 THEN 1 ELSE 2 * Pow2(n - 1)

\* mutant: the jitter term is left out
BackoffWait_without_jitter(backoff_base, attempt) ==
    backoff_base * Pow2(attempt - 1)

\* sleep_for + (0.1 * attempt), in milliseconds, with
\* sleep_for = self.backoff_base * (2 ** (attempt - 1))
BackoffWait(backoff_base, attempt) ==
    backoff_base * Pow2(attempt - 1) + 100 * attempt

\* what one yf.download call and the parsing of its answer can come to: the
\* per-symbol result, an empty frame, a frame that cannot be split by symbol,
\* an exception of the download itself
DownloadOutcomes == {"ok", "no_data", "unparsed", "network_error"}
DownloadResults == {{"AAPL"}, {"AAPL", "MSFT"}}

\* a DataFetcher and a call of _download_batch that has not started.
\* env.cache: the state of the cache file; env.downloads: yf.download calls
\* made; env.waits: the time.sleep arguments, in order.
InitFetch ==
    /\ market_data = EmptyMarket
    /\ news_data = EmptyNews
    /\ agent_results = EmptyDict
    /\ unified_score = 0
    /\ last_analysis = [a \in AgentSet |-> EmptyDict]
    /\ ret = [kind |-> "none"]
    /\ runs = 0
    /\ \E max_retries \in 0..MaxRetryLimit, backoff_base \in BackoffBases,
          yf \in BOOLEAN, cache \in {"absent", "stale", "fresh"} :
             env = [fetch |-> "none", raised |-> "none", pc |-> "start",
                    max_retries |-> max_retries, backoff_base |-> backoff_base,
                    yf |-> yf, cache |-> cache,
                    attempt |-> 0, last_exc |-> "none", downloads |-> 0, waits |-> <<>>]

\* the statements before the retry loop.  Reading a fresh cache file raises
\* ((sym,) in df_all.columns.nlevels tests membership in an int) and the
\* exception is ignored, so the call goes on to the loop.
Enter ==
    /\ env.pc = "start"
    /\ IF ~env.yf
       THEN /\ ret' = [kind |-> "raised", exception |-> "FetchError", last_exc |-> "none"]
            /\ env' = [env EXCEPT !.pc = "done"]
       ELSE /\ ret' = ret
            /\ env' = [env EXCEPT !.pc = "loop"]
    /\ UNCHANGED <<market_data, news_data, agent_results, unified_score, last_analysis, runs>>

\* one pass of `while attempt < self.max_retries`: the try block and, when
\* it raises, the except block with its sleep
Attempt(outcome, result) ==
    /\ env.pc = "loop"
    /\ env.attempt < env.max_retries
    /\ IF outcome = "ok"
       THEN /\ ret' = [kind |-> "result", symbols |-> result]
            /\ env' = [env EXCEPT !.pc = "done", !.downloads = @ + 1]
       ELSE /\ ret' = ret
            /\ env' = [env EXCEPT !.downloads = @ + 1,
                                  !.last_exc = outcome,
                                  !.attempt = @ + 1,
                                  !.waits = Append(@, BackoffWait(env.backoff_base, env.attempt + 1))]
    /\ UNCHANGED <<market_data, news_data, agent_results, unified_score, last_analysis, runs>>

\* the raise after the loop
Exhausted ==
    /\ env.pc = "loop"
    /\ ~(env.attempt < env.max_retries)
    /\ ret' = [kind |-> "raised", exception |-> "FetchError", last_exc |-> env.last_exc]
    /\ env' = [env EXCEPT !.pc = "done"]
    /\ UNCHANGED <<market_data, news_data, agent_results, unified_score, last_analysis, runs>>

NextFetch ==
    \/ Enter
    \/ \E outcome \in DownloadOutcomes, result \in DownloadResults : Attempt(outcome, result)
    \/ Exhausted

\* the call runs on: yf.download has a timeout and every sleep is finite
SpecFetch == InitFetch /\ [][NextFetch]_vars /\ WF_vars(NextFetch)

(***************************************************************************)
(* Properties                                                              *)
(***************************************************************************)
SummaryReturned == ret.kind = "summary"
AlertsReturned == ret.kind \in {"summary", "alerts"}
KnownSeverities == {"CRITICAL", "HIGH", "MEDIUM", "LOW"}
AlertListOf(results, a) ==
    IF a \in DOMAIN results /\ "alerts" \in DOMAIN results[a] THEN results[a].alerts ELSE <<>>

\* C1: after a run() that produced a summary, the stored and the reported
\* unified risk score lie in [0, 100], whatever the four base agents returned
\* (their empty/UNKNOWN results included).
C1_UnifiedScoreInRange ==
    /\ 0 <= unified_score /\ unified_score <= 10000
    /\ SummaryReturned =>
          /\ 0 <= ret.unified_risk_score /\ ret.unified_risk_score <= 10000
          /\ ret.unified_risk_score = unified_score

C1_Witness ==
    /\ SummaryReturned
    /\ ret.agent_results["forecast"].market_sentiment = "UNKNOWN"
    /\ ret.agent_results["correlation"].risk_level = "UNKNOWN"
    /\ ret.agent_results["risk"].overall_risk_score = 10000
    /\ ret.agent_results["sentiment"].overall_label = "NEGATIVE"

\* C2: the reported risk_level is the step function of the unified score with
\* thresholds 20/50/80 (the boundary values belong to the upper level), and
\* the engine's function agrees with RiskAgent._get_risk_level.
ClaimedLevel(score) ==
    IF score < 2000 THEN "LOW"
    ELSE IF 2000 <= score /\ score < 5000 THEN "MEDIUM"
    ELSE IF 5000 <= score /\ score < 8000 THEN "HIGH"
    ELSE "CRITICAL"

BoundaryScores == {0, 1999, 2000, 2001, 4999, 5000, 5001, 7999, 8000, 8001, 10000}

C2_RiskLevelStep ==
    /\ SummaryReturned =>
          /\ ret.risk_level = ClaimedLevel(ret.unified_risk_score)
          /\ ret.risk_level = RiskAgent_get_risk_level(ret.unified_risk_score)
    /\ \A score \in BoundaryScores \cup {unified_score} :
          /\ get_risk_level(score) = ClaimedLevel(score)
          /\ get_risk_level(score) = RiskAgent_get_risk_level(score)

C2_Witness ==
    /\ SummaryReturned
    /\ ret.unified_risk_score = 2000
    /\ ret.risk_level = "MEDIUM"

\* C3: the unified score is clamp[0,100] of 0.40*risk + 0.20*F + 0.20*S +
\* 0.20*C with F, S, C as the claim maps them; the advisory result is not an
\* argument.
ClaimedF(results) ==
    CASE results["forecast"].market_sentiment = "BEARISH" -> 7000
      [] results["forecast"].market_sentiment = "BULLISH" -> 3000
      [] OTHER -> 5000
ClaimedS(results) ==
    CASE results["sentiment"].overall_label = "NEGATIVE" ->
             5000 + Abs(results["sentiment"].overall_score) * 50
      [] results["sentiment"].overall_label = "POSITIVE" ->
             5000 - results["sentiment"].overall_score * 50
      [] OTHER -> 5000
ClaimedC(results) ==
    CASE results["correlation"].risk_level = "HIGH" -> 7500
      [] results["correlation"].risk_level = "MEDIUM" -> 5000
      [] OTHER -> 2500
\* 100 times the weighted sum
ClaimedSum(results) ==
    40 * results["risk"].overall_risk_score
        + 20 * ClaimedF(results) + 20 * ClaimedS(results) + 20 * ClaimedC(results)

C3_UnifiedScoreFormula ==
    SummaryReturned =>
        100 * ret.unified_risk_score = Min(1000000, Max(0, ClaimedSum(ret.agent_results)))

C3_Witness ==
    /\ SummaryReturned
    /\ ret.agent_results["forecast"].market_sentiment = "BEARISH"
    /\ ret.agent_results["sentiment"].overall_label = "POSITIVE"
    /\ ret.agent_results["correlation"].risk_level = "MEDIUM"
    /\ ret.agent_results["risk"].overall_risk_score = 4995

\* C4: all_alerts holds exactly the alerts of the risk, forecast, sentiment
\* and correlation results, each with the name of its agent as source; the
\* advisory result and a result without an alert list contribute nothing.
ExpectedEntries(results) ==
    Flatten([k \in 1..Len(BaseAgents) |->
        [i \in 1..Len(AlertListOf(results, BaseAgents[k])) |->
            [AlertListOf(results, BaseAgents[k])[i] EXCEPT !.source = BaseAgents[k]]]])

Occurrences(seq, v) == Cardinality({i \in 1..Len(seq) : seq[i] = v})

C4_AllAlertsExactlyBaseAlerts ==
    AlertsReturned =>
        LET expected == ExpectedEntries(agent_results)
        IN /\ Len(ret.all_alerts) =
                  Len(AlertListOf(agent_results, "risk"))
                  + Len(AlertListOf(agent_results, "forecast"))
                  + Len(AlertListOf(agent_results, "sentiment"))
                  + Len(AlertListOf(agent_results, "correlation"))
           /\ \A i \in 1..Len(ret.all_alerts) :
                  Occurrences(ret.all_alerts, ret.all_alerts[i])
                      = Occurrences(expected, ret.all_alerts[i])
           /\ \A i \in 1..Len(expected) :
                  Occurrences(ret.all_alerts, expected[i]) = Occurrences(expected, expected[i])

C4_Witness ==
    /\ ret.kind = "alerts"
    /\ Len(ret.all_alerts) = 3
    /\ "alerts" \in DOMAIN agent_results["advisory"]
    /\ "alerts" \notin DOMAIN agent_results["forecast"]
    /\ {ret.all_alerts[i].source : i \in 1..3} = {"risk", "sentiment", "correlation"}

\* C5: in all_alerts an alert of strictly higher known severity comes before
\* one of lower known severity, whichever agents they came from.
ClaimedRank(severity) ==
    CASE severity = "CRITICAL" -> 4
      [] severity = "HIGH" -> 3
      [] severity = "MEDIUM" -> 2
      [] severity = "LOW" -> 1

C5_SortedBySeverity ==
    AlertsReturned =>
        \A i, j \in 1..Len(ret.all_alerts) :
            (/\ ret.all_alerts[i].severity \in KnownSeverities
             /\ ret.all_alerts[j].severity \in KnownSeverities
             /\ ClaimedRank(ret.all_alerts[i].severity) > ClaimedRank(ret.all_alerts[j].severity))
            => i < j

C5_Witness ==
    /\ ret.kind = "alerts"
    /\ Len(ret.all_alerts) = 3
    /\ ret.all_alerts[1].source = "correlation" /\ ret.all_alerts[1].severity = "CRITICAL"
    /\ ret.all_alerts[2].source = "sentiment" /\ ret.all_alerts[2].severity = "MEDIUM"
    /\ ret.all_alerts[3].source = "risk" /\ ret.all_alerts[3].severity = "LOW"

\* C6 (as claimed): an alert whose severity is not CRITICAL, HIGH, MEDIUM or
\* LOW is placed after every alert of known severity, LOW included.
C6_UnknownSeverityLast ==
    AlertsReturned =>
        \A i, j \in 1..Len(ret.all_alerts) :
            (/\ ret.all_alerts[i].severity \notin KnownSeverities
             /\ ret.all_alerts[j].severity \in KnownSeverities)
            => j < i

\* C6 (amended): an alert of unknown severity is ranked like LOW: it comes
\* after every CRITICAL, HIGH and MEDIUM alert, and the LOW and unknown alerts
\* keep among themselves the order in which they were collected.
LowOrUnknown(alert) == alert.severity \notin {"CRITICAL", "HIGH", "MEDIUM"}

C6_UnknownSeverityRankedAsLow ==
    AlertsReturned =>
        /\ \A i, j \in 1..Len(ret.all_alerts) :
              (/\ ret.all_alerts[i].severity \notin KnownSeverities
               /\ ret.all_alerts[j].severity \in {"CRITICAL", "HIGH", "MEDIUM"})
              => j < i
        /\ SelectSeq(ret.all_alerts, LowOrUnknown)
               = SelectSeq(ExpectedEntries(agent_results), LowOrUnknown)

C6_Witness ==
    /\ ret.kind = "alerts"
    /\ Len(ret.all_alerts) = 3
    /\ ret.all_alerts[1].severity = "HIGH" /\ ret.all_alerts[1].source = "correlation"
    /\ ret.all_alerts[2].severity = "INFO" /\ ret.all_alerts[2].source = "risk"
    /\ ret.all_alerts[3].severity = "LOW" /\ ret.all_alerts[3].source = "sentiment"

\* C7 (as claimed): merging leaves the alert records of agent_results and of
\* every agent's last_analysis as the agent made them: none carries a source.
C7_AlertRecordsUnchanged ==
    \A a \in AgentSet :
        /\ \A i \in 1..Len(AlertListOf(agent_results, a)) :
              AlertListOf(agent_results, a)[i].source = Absent
        /\ \A i \in 1..Len(AlertListOf(last_analysis, a)) :
              AlertListOf(last_analysis, a)[i].source = Absent

\* C8 (as claimed): when a base agent's analyze() raises during run(), run()
\* still returns a summary.
C8_AgentFaultContained ==
    env.raised \in BaseAgentSet => SummaryReturned

\* C9: run() returns {} only when the supplier delivered no market data, and
\* a failure of an agent reaches the caller of run() as an error, not as {}.
C9_AgentFailurePropagates ==
    /\ ret.kind = "empty" => env.fetch \in {"raised", "empty"}
    /\ env.raised # "none" => ret = [kind |-> "raised", by |-> env.raised]

C9_Witness ==
    /\ env.fetch = "data"
    /\ env.raised = "sentiment"
    /\ ret.kind = "raised"
    /\ market_data.nsym > 0

\* C10 (as claimed): the unified score is formed with the component score 50
\* for every forecast, sentiment or correlation result that is the agent's
\* empty/UNKNOWN result.
EmptyForecast(results) == results["forecast"] = ForecastAgent_empty_result
EmptySentiment(results) == results["sentiment"] = SentimentAgent_empty_result
EmptyCorrelation(results) == results["correlation"] = CorrelationAgent_empty_result

\* 100 times the weighted sum in which an empty correlation result counts c
SumWithEmptyAs(results, c) ==
    40 * results["risk"].overall_risk_score
        + 20 * (IF EmptyForecast(results) THEN 5000 ELSE ClaimedF(results))
        + 20 * (IF EmptySentiment(results) THEN 5000 ELSE ClaimedS(results))
        + 20 * (IF EmptyCorrelation(results) THEN c ELSE ClaimedC(results))

C10_UnknownScoredNeutral ==
    SummaryReturned =>
        100 * ret.unified_risk_score = SumWithEmptyAs(ret.agent_results, 5000)

\* C10 (amended): an empty/UNKNOWN forecast or sentiment result gets 50, the
\* score of NEUTRAL; an UNKNOWN correlation result gets 25, the score of LOW,
\* not the 50 of MEDIUM.
C10_UnknownScoredByDefaultBranch ==
    SummaryReturned =>
        100 * ret.unified_risk_score = SumWithEmptyAs(ret.agent_results, 2500)

C10_Witness ==
    /\ SummaryReturned
    /\ EmptyForecast(ret.agent_results)
    /\ EmptySentiment(ret.agent_results)
    /\ EmptyCorrelation(ret.agent_results)

\* C11 (as claimed): the advisory confidence is a defined number in [0,1]: the
\* mean of the input confidences that are not zero, and exactly 0 when all
\* four are zero.
AdvisoryReturned == ret.kind = "advisory"
InputConfidences ==
    <<Get(agent_results["risk"], "confidence", 0),
      Get(agent_results["forecast"], "confidence", 0),
      Get(agent_results["sentiment"], "confidence", 0),
      Get(agent_results["correlation"], "confidence", 0)>>
NonZero(c) == c # 0

C11_AdvisoryConfidenceDefined ==
    AdvisoryReturned =>
        LET used == SelectSeq(InputConfidences, NonZero)
            confidence == ret.result.confidence
        IN /\ ~IsNaN(confidence)
           /\ 0 <= confidence /\ confidence <= 100
           /\ IF used = <<>> THEN confidence = 0
              ELSE confidence = SumSeq(used) \div Len(used)

\* C12: overall_recommendation is the first matching row of the decision
\* table on risk level, forecast label and sentiment label; the correlation
\* risk does not enter.
DecisionTable(risk_level, market_sentiment, sentiment_label) ==
    << [when |-> risk_level = "CRITICAL", then |-> "REDUCE_RISK_IMMEDIATELY"],
       [when |-> risk_level = "HIGH"
                    /\ (market_sentiment = "BEARISH" \/ sentiment_label = "NEGATIVE"),
        then |-> "DEFENSIVE_STANCE"],
       [when |-> risk_level = "HIGH", then |-> "MONITOR_CLOSELY"],
       [when |-> risk_level = "MEDIUM" /\ market_sentiment = "BEARISH"
                    /\ sentiment_label = "NEGATIVE",
        then |-> "CAUTIOUS_APPROACH"],
       [when |-> risk_level = "LOW" /\ market_sentiment = "BULLISH"
                    /\ sentiment_label = "POSITIVE",
        then |-> "FAVORABLE_CONDITIONS"],
       [when |-> TRUE, then |-> "MAINTAIN_CURRENT_STRATEGY"] >>

FirstMatch(table) ==
    LET k == CHOOSE i \in 1..Len(table) :
                 table[i].when /\ \A j \in 1..(i - 1) : ~table[j].when
    IN table[k].then

C12_RecommendationTable ==
    AdvisoryReturned =>
        ret.result.overall_recommendation =
            FirstMatch(DecisionTable(agent_results["risk"].risk_level,
                                     agent_results["forecast"].market_sentiment,
                                     agent_results["sentiment"].overall_label))

C12_Witness ==
    /\ AdvisoryReturned
    /\ agent_results["risk"].risk_level = "HIGH"
    /\ agent_results["forecast"].market_sentiment = "BULLISH"
    /\ agent_results["sentiment"].overall_label = "NEGATIVE"
    /\ agent_results["correlation"].risk_level = "HIGH"
    /\ ret.result.overall_recommendation = "DEFENSIVE_STANCE"

\* C13: priority_actions is ordered CRITICAL, HIGH, MEDIUM, LOW, and actions
\* of equal priority keep the order in which the rules produced them.
RuleOrder(action) ==
    CASE action = "REDUCE_EXPOSURE" -> 1
      [] action = "DEFENSIVE_POSITIONING" -> 2
      [] action = "IMPROVE_DIVERSIFICATION" -> 3
      [] action = "RISK_REVIEW" -> 4

C13_PriorityActionsStablySorted ==
    AdvisoryReturned =>
        LET actions == ret.result.priority_actions
        IN \A i, j \in 1..Len(actions) :
              i < j =>
                 /\ ClaimedRank(actions[i].priority) >= ClaimedRank(actions[j].priority)
                 /\ actions[i].priority = actions[j].priority
                       => RuleOrder(actions[i].action) < RuleOrder(actions[j].action)

C13_Witness ==
    /\ AdvisoryReturned
    /\ Len(ret.result.priority_actions) = 4
    /\ ret.result.priority_actions[2].action = "REDUCE_EXPOSURE"
    /\ ret.result.priority_actions[3].action = "DEFENSIVE_POSITIONING"
    /\ ret.result.priority_actions[2].priority = ret.result.priority_actions[3].priority

\* C14: priority_actions holds a CRITICAL RISK_REVIEW action exactly when the
\* risk result has a HIGH_VOLATILITY or VOLATILITY_SPIKE alert and the
\* sentiment result has a NEGATIVE_SENTIMENT alert; it is then the first action.
HasAlertOfType(alerts, types) == \E i \in 1..Len(alerts) : alerts[i].type \in types
RiskReviewAt(actions, i) ==
    actions[i].action = "RISK_REVIEW" /\ actions[i].priority = "CRITICAL"

C14_RiskReviewEscalation ==
    AdvisoryReturned =>
        LET actions == ret.result.priority_actions
            both == /\ HasAlertOfType(agent_results["risk"].alerts,
                                      {"HIGH_VOLATILITY", "VOLATILITY_SPIKE"})
                    /\ HasAlertOfType(agent_results["sentiment"].alerts, {"NEGATIVE_SENTIMENT"})
        IN /\ both <=> \E i \in 1..Len(actions) : actions[i].action = "RISK_REVIEW"
           /\ both => RiskReviewAt(actions, 1)
           /\ \A i \in 1..Len(actions) : actions[i].action = "RISK_REVIEW" => i = 1

C14_Witness ==
    /\ AdvisoryReturned
    /\ agent_results["risk"].risk_level = "HIGH"
    /\ agent_results["correlation"].risk_level = "HIGH"
    /\ Len(ret.result.priority_actions) = 3
    /\ RiskReviewAt(ret.result.priority_actions, 1)

\* C15 (as claimed): after a run, each base agent's return_confidence() is the
\* confidence of the result its analyze() just returned, and its
\* return_signal() is the signal of that result (or NO_DATA), never that of an
\* earlier analysis.
C15_QueriesReflectLastAnalyze ==
    SummaryReturned =>
        \A a \in BaseAgentSet :
            /\ return_confidence(last_analysis[a]) = Get(ret.agent_results[a], "confidence", 0)
            /\ return_signal(a, last_analysis[a])
                   \in {return_signal(a, ret.agent_results[a]), "NO_DATA"}

\* C16 (as claimed): when no symbol produces a per-symbol score, RiskAgent.analyze
\* returns the empty result (overall_risk_score 0, risk_level UNKNOWN), also
\* when the map is not empty.
AnalyzeReturned(agent_name) == ret.kind = "result" /\ ret.agent = agent_name

C16_NoScoredSymbolGivesUnknown ==
    (AnalyzeReturned("risk") /\ market_data.risk.individual_scores = <<>>) =>
        /\ ret.result.overall_risk_score = 0
        /\ ret.result.risk_level = "UNKNOWN"

\* C17 (as claimed): SentimentAgent.analyze on an empty map, or on a map in
\* which no symbol has news items, returns label UNKNOWN, score 0, confidence
\* 0 and no alerts.
C17_EmptyNewsGivesUnknown ==
    (AnalyzeReturned("sentiment") /\ news_data.scored = <<>>) =>
        /\ ret.result.overall_label = "UNKNOWN"
        /\ ret.result.overall_score = 0
        /\ ret.result.confidence = 0
        /\ ret.result.alerts = <<>>

\* C18: CorrelationAgent.analyze returns its empty result (risk_level UNKNOWN,
\* zeros, no alerts) exactly when fewer than 2 symbols carry a return series
\* or the date-aligned table has fewer than 20 rows.
SeriesCount(frames) == Cardinality({i \in 1..Len(frames) : HasReturns(frames[i])})

C18_CorrelationEmptyIffInsufficient ==
    AnalyzeReturned("correlation") =>
        LET insufficient == SeriesCount(market_data.tables) < 2 \/ market_data.joint.rows < 20
        IN /\ insufficient <=> ret.result.risk_level = "UNKNOWN"
           /\ insufficient =>
                 /\ ret.result.average_correlation = 0
                 /\ ret.result.diversification_score = 0
                 /\ ret.result.confidence = 0
                 /\ ret.result.alerts = <<>>
           /\ ~insufficient => ret.result.confidence > 0

C18_Witness ==
    /\ AnalyzeReturned("correlation")
    /\ Len(market_data.tables) = 2
    /\ SeriesCount(market_data.tables) = 2
    /\ market_data.joint.rows = 20
    /\ ret.result.risk_level = "MEDIUM"

\* C19: an exception raised for one symbol in ForecastAgent.analyze does not
\* abort the batch: analyze() returns, the failing symbol is not in forecasts,
\* and every other eligible symbol is forecast and counted in market_sentiment
\* and confidence.
Raises(df) == df.rows >= 30 /\ df.fc.outcome \in {"features_raise", "fit_raise"}
Eligible(df) == df.rows >= 30 /\ df.fc.outcome = "ok"
Count(frames, Test(_)) == Cardinality({i \in 1..Len(frames) : Test(frames[i])})
PredictedUp(df) == Eligible(df) /\ df.fc.predicted_direction = "UP"
PredictedDown(df) == Eligible(df) /\ df.fc.predicted_direction = "DOWN"

C19_ForecastFailureSkipsSymbol ==
    AnalyzeReturned("forecast") =>
        LET frames == market_data.tables
            eligible == SelectSeq(frames, Eligible)
            up == Count(frames, PredictedUp)
            down == Count(frames, PredictedDown)
        IN /\ market_data.forecast.symbols = [i \in 1..Len(eligible) |-> eligible[i].symbol]
           /\ eligible # <<>> =>
                 /\ ret.result.market_sentiment =
                        (IF up > down THEN "BULLISH" ELSE IF down > up THEN "BEARISH" ELSE "NEUTRAL")
                 /\ ret.result.confidence =
                        SumSeq([i \in 1..Len(eligible) |-> eligible[i].fc.confidence])
                            \div Len(eligible)

C19_Witness ==
    /\ AnalyzeReturned("forecast")
    /\ Len(market_data.tables) = 2
    /\ Raises(market_data.tables[1])
    /\ Eligible(market_data.tables[2])
    /\ market_data.forecast.symbols = <<market_data.tables[2].symbol>>
    /\ ret.result.market_sentiment = "BEARISH"

\* C20 (as claimed): in every result a base agent stores, the risk scores and
\* the diversification score are in [0,100], the average correlation and the
\* sentiment score in [-1,1], and the confidence in [0,1].
Within(x, lo, hi) == ~IsNaN(x) /\ lo <= x /\ x <= hi

C20_StoredScoresInRange ==
    /\ AnalyzeReturned("risk") /\ last_analysis["risk"] # EmptyDict =>
          /\ \A i \in 1..Len(market_data.risk.individual_scores) :
                Within(market_data.risk.individual_scores[i], 0, 10000)
          /\ Within(market_data.risk.max_risk_score, 0, 10000)
          /\ Within(last_analysis["risk"].overall_risk_score, 0, 10000)
          /\ Within(last_analysis["risk"].confidence, 0, 100)
    /\ AnalyzeReturned("forecast") /\ last_analysis["forecast"] # EmptyDict =>
          Within(last_analysis["forecast"].confidence, 0, 100)
    /\ AnalyzeReturned("sentiment") /\ last_analysis["sentiment"] # EmptyDict =>
          /\ Within(last_analysis["sentiment"].overall_score, -100, 100)
          /\ Within(last_analysis["sentiment"].confidence, 0, 100)
    /\ AnalyzeReturned("correlation") /\ last_analysis["correlation"] # EmptyDict =>
          /\ Within(last_analysis["correlation"].diversification_score, 0, 10000)
          /\ Within(last_analysis["correlation"].confidence, 0, 100)
          /\ Within(last_analysis["correlation"].average_correlation, -100, 100)

(***************************************************************************)
(* C21: the four base agents are independent.  In every order and          *)
(* interleaving of the four analyze() tasks of one run, no step changes    *)
(* the market or news data, a step changes only the last_analysis of the   *)
(* agent that takes it, and the result every agent hands back is the one   *)
(* it computes from the delivered data alone (the same in every order,     *)
(* whatever the agents held from an earlier run).                          *)
(***************************************************************************)
StepOf(agent_name) == env'.pc[agent_name] # env.pc[agent_name]

C21_BaseAgentsIndependent ==
    [][/\ market_data' = market_data
       /\ news_data' = news_data
       /\ \A a \in AgentSet : last_analysis'[a] # last_analysis[a] => a \in BaseAgentSet /\ StepOf(a)
       /\ \A a \in BaseAgentSet :
             env'.pc[a] = "done" =>
                 ret'.results[a] = AnalyzeOf(a, market_data, news_data).result]_vars

\* all four tasks are done, they finished in the reverse of the engine's
\* order, each stored a result of its own, and the agents held results of an
\* earlier run when they started
C21_Witness ==
    /\ ret.kind = "tasks"
    /\ ret.order = <<"correlation", "sentiment", "forecast", "risk">>
    /\ \A a \in BaseAgentSet : last_analysis[a] = ret.results[a] /\ last_analysis[a] # StaleAnalyses[a]
    /\ ret.results["forecast"].market_sentiment = "BULLISH"
    /\ ret.results["correlation"].risk_level = "MEDIUM"
    /\ DOMAIN last_analysis["advisory"] # {}

(***************************************************************************)
(* C22: a non-empty correlation result has risk_level HIGH when the        *)
(* absolute average correlation exceeds 0.8, MEDIUM when it is in          *)
(* (0.6, 0.8], LOW otherwise; it has a HIGH_PORTFOLIO_CORRELATION alert    *)
(* exactly when the absolute average exceeds the threshold the agent is    *)
(* built with (0.7); and diversification_score is                          *)
(* max(0, 100 * (1 - |average|)).  An average of 0.95 gives HIGH, the      *)
(* alert and a score of 5.  (An undefined average exceeds no threshold,    *)
(* and max(0, nan) is 0.)                                                  *)
(***************************************************************************)
Magnitude(x) == IF x < 0 THEN 0 - x ELSE x
HighPortfolioCorrelation(result) == HasAlertOfType(result.alerts, {"HIGH_PORTFOLIO_CORRELATION"})

C22_CorrelationLevelAlertAndScore ==
    (AnalyzeReturned("correlation") /\ ret.result.risk_level # "UNKNOWN") =>
        LET average == ret.result.average_correlation
        IN IF IsNaN(average)
           THEN /\ ret.result.risk_level = "LOW"
                /\ ~HighPortfolioCorrelation(ret.result)
                /\ ret.result.diversification_score = 0
           ELSE /\ ret.result.risk_level =
                      (IF Magnitude(average) > 80 THEN "HIGH"
                       ELSE IF Magnitude(average) > 60 THEN "MEDIUM"
                       ELSE "LOW")
                /\ HighPortfolioCorrelation(ret.result) <=> Magnitude(average) > 70
                /\ ret.result.diversification_score =
                      (IF 100 * (100 - Magnitude(average)) > 0
                       THEN 100 * (100 - Magnitude(average)) ELSE 0)
                /\ average = 95 =>
                      /\ ret.result.risk_level = "HIGH"
                      /\ HighPortfolioCorrelation(ret.result)
                      /\ ret.result.diversification_score = 500

\* two symbols with 30 aligned days and an average correlation of 0.95
C22_Witness ==
    /\ AnalyzeReturned("correlation")
    /\ market_data.nsym = 2
    /\ market_data.joint.rows = 30
    /\ ~IsNaN(ret.result.average_correlation)
    /\ ret.result.average_correlation = 95
    /\ ret.result.risk_level = "HIGH"
    /\ ret.result.diversification_score = 500
    /\ HighPortfolioCorrelation(ret.result)

(***************************************************************************)
(* C23 (as claimed): with per-symbol sentiment scores 0.8, 0.6 and -0.1    *)
(* the overall label is POSITIVE and exactly one POSITIVE_SENTIMENT alert  *)
(* is emitted, for the symbol scoring 0.8.                                 *)
(***************************************************************************)
ScoresOf(news) == [i \in 1..Len(news.scored) |-> news.scored[i].score]
PositiveAlert(symbol) == Alert("POSITIVE_SENTIMENT", "LOW", symbol)

C23_OnlyHighestSymbolAlerted ==
    (AnalyzeReturned("sentiment") /\ ScoresOf(news_data) = <<80, 60, -10>>) =>
        /\ ret.result.overall_label = "POSITIVE"
        /\ ret.result.alerts = <<PositiveAlert(news_data.scored[1].symbol)>>

(***************************************************************************)
(* C23 (amended): with per-symbol sentiment scores 0.8, 0.6 and -0.1 the   *)
(* overall label is POSITIVE and exactly two POSITIVE_SENTIMENT alerts are *)
(* emitted, for the symbols scoring 0.8 and 0.6 (both exceed 0.5), in that *)
(* order; the symbol scoring -0.1 gets no alert.                           *)
(***************************************************************************)
C23_BothSymbolsAboveHalfAlerted ==
    (AnalyzeReturned("sentiment") /\ ScoresOf(news_data) = <<80, 60, -10>>) =>
        /\ ret.result.overall_label = "POSITIVE"
        /\ ret.result.alerts = <<PositiveAlert(news_data.scored[1].symbol),
                                 PositiveAlert(news_data.scored[2].symbol)>>

C23_Witness ==
    /\ AnalyzeReturned("sentiment")
    /\ ScoresOf(news_data) = <<80, 60, -10>>
    /\ ret.result.overall_score = 43
    /\ Len(ret.result.alerts) = 2

(***************************************************************************)
(* C24: for every symbol with a sentiment score SentimentAgent emits at    *)
(* most one alert: NEGATIVE_SENTIMENT exactly when the score is < -0.5     *)
(* (severity HIGH when < -0.7, else MEDIUM), POSITIVE_SENTIMENT with       *)
(* severity LOW exactly when the score is > 0.5, and none for a score in   *)
(* [-0.5, 0.5].  The alerts of the result are those of the symbols and no  *)
(* other.                                                                  *)
(***************************************************************************)
AlertsFor(alerts, symbol) == SelectSeq(alerts, LAMBDA a : a.symbol = symbol)

C24_SentimentAlertRule ==
    AnalyzeReturned("sentiment") =>
        LET scored == news_data.scored
            alerts == ret.result.alerts
        IN /\ \A i \in 1..Len(scored) :
                 LET mine == AlertsFor(alerts, scored[i].symbol)
                     score == scored[i].score
                 IN /\ Len(mine) <= 1
                    /\ score < -50 <=> (mine # <<>> /\ mine[1].type = "NEGATIVE_SENTIMENT")
                    /\ score < -70 => mine[1].severity = "HIGH"
                    /\ (score < -50 /\ ~(score < -70)) => mine[1].severity = "MEDIUM"
                    /\ score > 50 <=> (mine # <<>> /\ mine[1].type = "POSITIVE_SENTIMENT")
                    /\ score > 50 => mine[1].severity = "LOW"
                    /\ (-50 <= score /\ score <= 50) <=> mine = <<>>
           /\ \A j \in 1..Len(alerts) : \E i \in 1..Len(scored) : alerts[j].symbol = scored[i].symbol

\* one symbol exactly at -0.7 (a MEDIUM alert) next to one exactly at 0.5 (none)
C24_Witness ==
    /\ AnalyzeReturned("sentiment")
    /\ ScoresOf(news_data) = <<-70, 50>>
    /\ Len(ret.result.alerts) = 1
    /\ ret.result.alerts[1].severity = "MEDIUM"

(***************************************************************************)
(* C25 (as claimed): for a symbol that produced a risk score RiskAgent     *)
(* emits a VOLATILITY_SPIKE alert exactly when the symbol's history has at *)
(* least 60 points and current_vol > 1.5 * historical_vol; a history of    *)
(* exactly 60 points is checked like any longer one.                       *)
(***************************************************************************)
SpikeAlerted(alerts, symbol) ==
    \E i \in 1..Len(alerts) : alerts[i].type = "VOLATILITY_SPIKE" /\ alerts[i].symbol = symbol

C25_VolatilitySpikeFromSixtyPoints ==
    AnalyzeReturned("risk") =>
        \A i \in 1..Len(market_data.tables) :
            LET df == market_data.tables[i]
            IN (df.rows > 0 /\ df.returns_col /\ df.valid >= 5) =>
                   (SpikeAlerted(ret.result.alerts, df.symbol)
                       <=> (df.rows >= 60 /\ 2 * df.vol > 3 * df.hist_vol))

(***************************************************************************)
(* C26 (as claimed): market_sentiment is BULLISH when more forecast        *)
(* symbols predict UP than DOWN, BEARISH when more predict DOWN than UP,   *)
(* and NEUTRAL in every other case, a tie and the case in which no symbol  *)
(* could be forecast included.                                             *)
(***************************************************************************)
C26_NeutralWheneverNoMajority ==
    AnalyzeReturned("forecast") =>
        LET up == Count(market_data.tables, PredictedUp)
            down == Count(market_data.tables, PredictedDown)
        IN ret.result.market_sentiment =
               (IF up > down THEN "BULLISH" ELSE IF down > up THEN "BEARISH" ELSE "NEUTRAL")

(***************************************************************************)
(* C26 (amended): market_sentiment is BULLISH when more forecast symbols   *)
(* predict UP than DOWN, BEARISH when more predict DOWN than UP, NEUTRAL   *)
(* when at least one symbol was forecast and neither count exceeds the     *)
(* other, and UNKNOWN when no symbol could be forecast (an empty map       *)
(* included).                                                              *)
(***************************************************************************)
C26_NeutralOnTieUnknownWithoutForecast ==
    AnalyzeReturned("forecast") =>
        LET up == Count(market_data.tables, PredictedUp)
            down == Count(market_data.tables, PredictedDown)
        IN ret.result.market_sentiment =
               (IF Count(market_data.tables, Eligible) = 0 THEN "UNKNOWN"
                ELSE IF up > down THEN "BULLISH"
                ELSE IF down > up THEN "BEARISH"
                ELSE "NEUTRAL")

\* one symbol predicts UP and one DOWN: a tie
C26_Witness ==
    /\ AnalyzeReturned("forecast")
    /\ Count(market_data.tables, PredictedUp) = 1
    /\ Count(market_data.tables, PredictedDown) = 1
    /\ ret.result.market_sentiment = "NEUTRAL"

(***************************************************************************)
(* C27: AdvisoryAgent.analyze emits at most one MARKET_OUTLOOK             *)
(* recommendation: urgency HIGH together with a DEFENSIVE_POSITIONING      *)
(* action for (forecast BEARISH, sentiment NEGATIVE); urgency LOW and no   *)
(* action for (BULLISH, POSITIVE); for every other pair whose forecast     *)
(* label differs from the sentiment label (forecast UNKNOWN included) the  *)
(* urgency-MEDIUM recommendation plus a divergence note in risk_factors;   *)
(* and none only when both labels are NEUTRAL.                             *)
(***************************************************************************)
DivergenceNote == "Divergence between technical and sentiment signals"
Member(seq, x) == \E i \in 1..Len(seq) : seq[i] = x

C27_MarketOutlookRule ==
    AdvisoryReturned =>
        LET forecast == agent_results["forecast"].market_sentiment
            sentiment == agent_results["sentiment"].overall_label
            outlook == SelectSeq(ret.result.recommendations,
                                 LAMBDA r : r.category = "MARKET_OUTLOOK")
            defensive == \E i \in 1..Len(ret.result.priority_actions) :
                             ret.result.priority_actions[i].action = "DEFENSIVE_POSITIONING"
            noted == Member(ret.result.risk_factors, DivergenceNote)
        IN /\ Len(outlook) <= 1
           /\ IF forecast = "BEARISH" /\ sentiment = "NEGATIVE"
              THEN outlook # <<>> /\ outlook[1].urgency = "HIGH" /\ defensive /\ ~noted
              ELSE IF forecast = "BULLISH" /\ sentiment = "POSITIVE"
              THEN outlook # <<>> /\ outlook[1].urgency = "LOW" /\ ~defensive /\ ~noted
              ELSE IF forecast # sentiment
              THEN outlook # <<>> /\ outlook[1].urgency = "MEDIUM" /\ ~defensive /\ noted
              ELSE outlook = <<>> /\ ~defensive /\ ~noted
           /\ outlook = <<>> <=> (forecast = "NEUTRAL" /\ sentiment = "NEUTRAL")

\* an UNKNOWN forecast next to a NEUTRAL sentiment: the caution recommendation
C27_Witness ==
    /\ AdvisoryReturned
    /\ agent_results["forecast"].market_sentiment = "UNKNOWN"
    /\ agent_results["sentiment"].overall_label = "NEUTRAL"
    /\ Member(ret.result.risk_factors, DivergenceNote)
    /\ \E i \in 1..Len(ret.result.recommendations) :
          /\ ret.result.recommendations[i].category = "MARKET_OUTLOOK"
          /\ ret.result.recommendations[i].urgency = "MEDIUM"

(***************************************************************************)
(* C28: when the data supplier raises or delivers an empty market-data     *)
(* map, run() returns the empty summary {} and leaves agent_results,       *)
(* unified_score and every agent's last_analysis as the previous run()     *)
(* left them (no agent was invoked); on a fresh engine agent_results is    *)
(* {}, unified_score is 0 and every return_signal() is NO_DATA.            *)
(***************************************************************************)
NoDataRun == env'.fetch \in {"raised", "empty"}

C28_NoDataRunLeavesEngineAsItWas ==
    [][NoDataRun =>
          /\ ret'.kind = "empty"
          /\ env'.raised = "none"
          /\ agent_results' = agent_results
          /\ unified_score' = unified_score
          /\ last_analysis' = last_analysis
          /\ runs = 0 =>
                /\ DOMAIN agent_results' = {}
                /\ unified_score' = 0
                /\ \A a \in AgentSet : return_signal(a, last_analysis'[a]) = "NO_DATA"]_vars

\* a run without data after a run that produced a summary: the earlier
\* results are still in place
C28_Witness ==
    /\ runs = 2
    /\ env.fetch = "empty"
    /\ ret.kind = "empty"
    /\ DOMAIN agent_results # {}
    /\ unified_score > 0
    /\ return_signal("risk", last_analysis["risk"]) = "DANGER"
    /\ return_signal("advisory", last_analysis["advisory"]) = "REDUCE_RISK_IMMEDIATELY"

(***************************************************************************)
(* C29 (as claimed): the /api/risk handler writes the last-known-good      *)
(* sample only from a successful analysis: after any sequence of requests  *)
(* the stored sample has a non-null unified_risk_score, and so has the     *)
(* sample served after an engine failure.                                  *)
(***************************************************************************)
C29_SampleHoldsARealAnalysis ==
    /\ env.sample.kind # "missing" => ~IsNone(env.sample.unified_risk_score)
    /\ (env.raised # "none" /\ env.sample.kind # "missing") => ~IsNone(ret.unified_risk_score)

(***************************************************************************)
(* C30: _download_batch always terminates after at most max_retries        *)
(* download attempts.  It returns the per-symbol result at the first       *)
(* attempt that succeeds and makes no further attempt; after max_retries   *)
(* consecutive failed attempts it raises FetchError; the wait after the    *)
(* k-th failed attempt is backoff_base * 2^(k-1) + 0.1 * k, so successive  *)
(* waits strictly increase.                                                *)
(***************************************************************************)
Doubled(k) == IF k = 1 THEN 1 ELSE IF k = 2 THEN 2 ELSE IF k = 3 THEN 4 ELSE IF k = 4 THEN 8 ELSE 16

AttemptsAndWaits ==
    /\ env.downloads <= env.max_retries
    /\ \A k \in 1..Len(env.waits) : env.waits[k] = env.backoff_base * Doubled(k) + 100 * k
    /\ \A k \in 1..(Len(env.waits) - 1) : env.waits[k] < env.waits[k + 1]
    /\ ret.kind = "result" =>
          /\ env.pc = "done"
          /\ Len(env.waits) = env.downloads - 1
    /\ (ret.kind = "raised" /\ env.yf) =>
          /\ ret.exception = "FetchError"
          /\ env.downloads = env.max_retries
          /\ Len(env.waits) = env.max_retries
    /\ (env.pc = "done" /\ Len(env.waits) = env.max_retries) => ret.kind = "raised"

====
